---- MODULE Spec2Model ----
(***************************************************************************)
(* Model of the license-plate reading pipeline of patent_processing:       *)
(* lambda/process_readings/app.py (validate, store reading, choose a       *)
(* campaign, store the exposure) run by concurrent requests against one    *)
(* PostgreSQL store (READ COMMITTED: every statement sees the rows that    *)
(* were committed when it runs).                                           *)
(***************************************************************************)
EXTENDS Integers, Sequences, FiniteSets, TLC

VARIABLES
    CAMPAIGNS,   \* the campaign catalog, app.py:25-40 (ordered list)
    readings,    \* table license_plate_readings: set of committed rows
    exposures,   \* table ad_exposures: committed rows in insertion (id) order
    event,       \* event[p]: the API Gateway event of request p
    pc,          \* pc[p]: position of request p inside lambda_handler
    conn,        \* conn[p]: "None", "open" (connected, no transaction in
                 \* progress), "in_transaction", "aborted" (a statement
                 \* failed and was not rolled back), "closed"
    idx,         \* idx[p]: position of the for-loop over CAMPAIGNS
    campaign,    \* campaign[p]: index in CAMPAIGNS of the campaign returned, 0 = None
    response,    \* response[p]: the api_response value returned
    logs,        \* logs[p]: the logger.error records written by request p
    call         \* argument/result record of a direct call of a pure function

vars == <<CAMPAIGNS, readings, exposures, event, pc, conn, idx, campaign,
          response, logs, call>>

handlerVars == <<CAMPAIGNS, readings, exposures, event, pc, conn, idx, campaign,
                 response, logs>>

(***************************************************************************)
(* Strings that the code parses are sequences of one-character strings.    *)
(***************************************************************************)
Digits == <<"0", "1", "2", "3", "4", "5", "6", "7", "8", "9">>

IsDigit(c) == \E d \in 1..10 : Digits[d] = c

DigitValue(c) == (CHOOSE d \in 1..10 : Digits[d] = c) - 1

ValueError == -1

\* str.split(sep): the parts of s between the occurrences of sep
RECURSIVE split(_, _)
split(s, sep) ==
    IF \A k \in 1..Len(s) : s[k] # sep
    THEN <<s>>
    ELSE LET k == CHOOSE j \in 1..Len(s) :
                      s[j] = sep /\ \A m \in 1..(j - 1) : s[m] # sep
         IN <<SubSeq(s, 1, k - 1)>> \o split(SubSeq(s, k + 1, Len(s)), sep)

\* str.strip(): s without the blanks at its ends
RECURSIVE strip(_)
strip(s) ==
    IF Len(s) > 0 /\ s[1] = " " THEN strip(Tail(s))
    ELSE IF Len(s) > 0 /\ s[Len(s)] = " " THEN strip(SubSeq(s, 1, Len(s) - 1))
    ELSE s

\* the digits of an int() literal: s stripped, without its sign
Unsigned(s) ==
    LET t == strip(s)
    IN IF Len(t) > 0 /\ t[1] \in {"+", "-"} THEN Tail(t) ELSE t

IsUnderscore(c) == c = "_"

\* int(s) accepts blanks around an optional sign and digits, with single
\* underscores between digits
int_ok(s) ==
    LET u == Unsigned(s)
    IN /\ Len(u) > 0
       /\ \A k \in 1..Len(u) : IsDigit(u[k]) \/ IsUnderscore(u[k])
       /\ IsDigit(u[1]) /\ IsDigit(u[Len(u)])
       /\ \A k \in 1..(Len(u) - 1) : ~(IsUnderscore(u[k]) /\ IsUnderscore(u[k + 1]))

RECURSIVE DecimalValue(_)
DecimalValue(ds) ==
    IF Len(ds) = 0 THEN 0
    ELSE DecimalValue(SubSeq(ds, 1, Len(ds) - 1)) * 10 + DigitValue(ds[Len(ds)])

\* int(s) for a text: its value where int_ok, and ValueError raised otherwise
int(s) ==
    IF ~int_ok(s)
    THEN ValueError
    ELSE LET t == strip(s)
             magnitude == DecimalValue(SelectSeq(Unsigned(s), IsDigit))
         IN IF t[1] = "-" THEN -magnitude ELSE magnitude

\* "%02d:%02d": how a window bound is written in the catalog
HHMM(h, m) ==
    <<Digits[(h \div 10) + 1], Digits[(h % 10) + 1], ":",
      Digits[(m \div 10) + 1], Digits[(m % 10) + 1]>>

(***************************************************************************)
(* Timestamps.  An ISO-8601 text is kept as the fields fromisoformat reads  *)
(* out of it; iso = FALSE is a text fromisoformat rejects.                 *)
(***************************************************************************)
Timestamp(h, m, off) == [iso |-> TRUE, hour |-> h, minute |-> m, utcoffset |-> off]

NotIso == [iso |-> FALSE, hour |-> 0, minute |-> 0, utcoffset |-> 0]

\* datetime.fromisoformat(ts.replace("Z", "+00:00")): the wall-clock fields
\* written in the text, with the offset kept aside as tzinfo
fromisoformat(ts) ==
    [hour |-> ts.hour, minute |-> ts.minute, tzinfo |-> ts.utcoffset]

is_in_time_window_exclusive(reading_time, start_time_str, end_time_str) ==
    LET sp == split(start_time_str, ":")
        ep == split(end_time_str, ":")
    IN IF Len(sp) # 2 \/ Len(ep) # 2
       THEN FALSE
       ELSE LET start_hour == int(sp[1])
                start_minute == int(sp[2])
                end_hour == int(ep[1])
                end_minute == int(ep[2])
            IN IF ~(int_ok(sp[1]) /\ int_ok(sp[2]) /\ int_ok(ep[1]) /\ int_ok(ep[2]))
               THEN FALSE
               ELSE LET start_minutes == start_hour * 60 + start_minute
                        end_minutes == end_hour * 60 + end_minute
                        reading_minutes ==
                            reading_time.hour * 60 + reading_time.minute
                    IN start_minutes < reading_minutes
                       /\ reading_minutes < end_minutes

\* a window test that takes start > end as a window over midnight
is_in_time_window_wrapping(reading_time, start_time_str, end_time_str) ==
    LET sp == split(start_time_str, ":")
        ep == split(end_time_str, ":")
    IN IF Len(sp) # 2 \/ Len(ep) # 2
       THEN FALSE
       ELSE LET start_hour == int(sp[1])
                start_minute == int(sp[2])
                end_hour == int(ep[1])
                end_minute == int(ep[2])
            IN IF ~(int_ok(sp[1]) /\ int_ok(sp[2]) /\ int_ok(ep[1]) /\ int_ok(ep[2]))
               THEN FALSE
               ELSE LET start_minutes == start_hour * 60 + start_minute
                        end_minutes == end_hour * 60 + end_minute
                        reading_minutes ==
                            reading_time.hour * 60 + reading_time.minute
                    IN IF start_minutes <= end_minutes
                       THEN start_minutes <= reading_minutes
                            /\ reading_minutes <= end_minutes
                       ELSE start_minutes <= reading_minutes
                            \/ reading_minutes <= end_minutes

is_in_time_window(reading_time, start_time_str, end_time_str) ==
    LET sp == split(start_time_str, ":")
        ep == split(end_time_str, ":")
    IN IF Len(sp) # 2 \/ Len(ep) # 2
       THEN FALSE
       ELSE LET start_hour == int(sp[1])
                start_minute == int(sp[2])
                end_hour == int(ep[1])
                end_minute == int(ep[2])
            IN IF ~(int_ok(sp[1]) /\ int_ok(sp[2]) /\ int_ok(ep[1]) /\ int_ok(ep[2]))
               THEN FALSE
               ELSE LET start_minutes == start_hour * 60 + start_minute
                        end_minutes == end_hour * 60 + end_minute
                        reading_minutes ==
                            reading_time.hour * 60 + reading_time.minute
                    IN start_minutes <= reading_minutes
                       /\ reading_minutes <= end_minutes

(***************************************************************************)
(* The campaign catalog.                                                   *)
(***************************************************************************)
Campaign(id, locs, start, end, cap, ad) ==
    [campaign_id |-> id, locations |-> locs,
     time_window |-> [start |-> start, end |-> end],
     max_exposures_per_plate |-> cap, ad_content |-> ad]

\* the list written in app.py
HardCodedCampaigns ==
    << Campaign("CAMP_001", <<"CHECK_01", "CHECK_02">>, HHMM(8, 0), HHMM(20, 0),
                3, "AD_001"),
       Campaign("CAMP_002", <<"CHECK_03", "CHECK_04">>, HHMM(10, 0), HHMM(22, 0),
                5, "AD_002") >>

InList(x, list) == \E k \in 1..Len(list) : list[k] = x

(***************************************************************************)
(* Requests and responses.                                                 *)
(***************************************************************************)
Requests == DOMAIN pc

RequiredFields ==
    <<"reading_id", "timestamp", "license_plate", "checkpoint_id", "location">>

\* a JSON body.  type is what json.loads returned ("object" for a dict);
\* fields are the keys it has (for an "array" or a "string": the names that
\* "in" finds in it); types are the JSON types of the values; a coordinate is
\* held as its kind and, for the kinds float() converts, its value
Reading(id, ts, plate, checkpoint, lat, lng) ==
    [type |-> "object",
     fields |-> {RequiredFields[k] : k \in 1..Len(RequiredFields)},
     types |-> [reading_id |-> "string", timestamp |-> "string",
                license_plate |-> "string", checkpoint_id |-> "string",
                location |-> "object"],
     reading_id |-> id, timestamp |-> ts, license_plate |-> plate,
     checkpoint_id |-> checkpoint,
     location |-> [keys |-> {"latitude", "longitude"},
                   kinds |-> [latitude |-> "number", longitude |-> "number"],
                   latitude |-> lat, longitude |-> lng]]

Without(reading, field) == [reading EXCEPT !.fields = @ \ {field}]

JsonEvent(reading) == [body |-> "Json", json |-> reading]

NoResponse ==
    [statusCode |-> 0, error |-> <<>>, processed |-> FALSE, ad_served |-> <<>>]

api_response_error(status, message) ==
    [statusCode |-> status, error |-> message, processed |-> FALSE,
     ad_served |-> <<>>]

\* result = {"reading_id", "processed": True, "ad_served": ...}; ad_served is
\* <<>> for null and <<campaign_id, ad_content>> otherwise
api_response_result(ad) ==
    [statusCode |-> 200, error |-> <<>>, processed |-> TRUE, ad_served |-> ad]

Returned(p) == pc[p] = "done"

(***************************************************************************)
(* validate_reading: (valid, message) with the message as its pieces.      *)
(***************************************************************************)
FirstMissing(reading) ==
    LET missing == {k \in 1..Len(RequiredFields) :
                        RequiredFields[k] \notin reading.fields}
    IN IF missing = {} THEN 0
       ELSE CHOOSE k \in missing : \A m \in missing : k <= m

\* what float(x) does with a coordinate of each kind: a number and a string
\* that spells one convert, NaN converts to a value no comparison holds for,
\* other strings raise ValueError, null raises TypeError, and an integer
\* beyond the float range raises OverflowError
CoordinateKinds == {"number", "numeric_string", "nan", "text", "null", "bigint"}

float_raises(kind) ==
    IF kind = "text" THEN "ValueError"
    ELSE IF kind = "null" THEN "TypeError"
    ELSE IF kind = "bigint" THEN "OverflowError"
    ELSE ""

NoException == <<>>

\* the exception and its text
Exception(type, text) == <<type, text>>

\* the try block of the coordinates: (valid, message, exception)
validate_coordinates(location) ==
    LET lat_raises == float_raises(location.kinds.latitude)
        lng_raises == float_raises(location.kinds.longitude)
        raised == IF lat_raises # "" THEN lat_raises ELSE lng_raises
    IN IF raised \in {"ValueError", "TypeError"}
       THEN <<FALSE, <<"Invalid location coordinates: latitude and longitude must be numbers">>,
              NoException>>
       ELSE IF raised # ""
       THEN <<FALSE, <<>>,
              Exception(raised, "int too large to convert to float")>>
       ELSE IF /\ location.kinds.latitude # "nan"
               /\ (location.latitude < -90 \/ location.latitude > 90)
       THEN <<FALSE, <<"Invalid latitude: must be between -90 and 90">>,
              NoException>>
       ELSE IF /\ location.kinds.longitude # "nan"
               /\ (location.longitude < -180 \/ location.longitude > 180)
       THEN <<FALSE, <<"Invalid longitude: must be between -180 and 180">>,
              NoException>>
       ELSE <<TRUE, <<>>, NoException>>

\* (valid, message, exception): the exception is the one that leaves the
\* function, NoException when it returns
validate_reading(reading) ==
    IF reading.type \notin {"object", "array", "string"}
    THEN <<FALSE, <<>>,
           Exception("TypeError", "argument of type is not iterable")>>
    ELSE IF FirstMissing(reading) # 0
    THEN <<FALSE, <<"Missing required field: ",
                    RequiredFields[FirstMissing(reading)]>>, NoException>>
    ELSE IF reading.type # "object"
    THEN <<FALSE, <<>>,
           Exception("TypeError", "indices must be integers")>>
    ELSE IF reading.types.reading_id # "string" \/ reading.reading_id = ""
    THEN <<FALSE, <<"Invalid reading_id: must be a non-empty string">>,
           NoException>>
    ELSE IF reading.types.license_plate # "string" \/ reading.license_plate = ""
    THEN <<FALSE, <<"Invalid license_plate: must be a non-empty string">>,
           NoException>>
    ELSE IF reading.types.checkpoint_id # "string" \/ reading.checkpoint_id = ""
    THEN <<FALSE, <<"Invalid checkpoint_id: must be a non-empty string">>,
           NoException>>
    ELSE IF reading.types.location # "object"
    THEN <<FALSE, <<"Invalid location: must be an object">>, NoException>>
    ELSE IF ~({"latitude", "longitude"} \subseteq reading.location.keys)
    THEN <<FALSE, <<"Invalid location: must contain latitude and longitude">>,
           NoException>>
    ELSE IF ~validate_coordinates(reading.location)[1]
    THEN validate_coordinates(reading.location)
    ELSE IF reading.types.timestamp # "string" \/ ~reading.timestamp.iso
    THEN <<FALSE, <<"Invalid timestamp: must be in ISO 8601 format (YYYY-MM-DDTHH:MM:SSZ)">>,
           NoException>>
    ELSE <<TRUE, <<>>, NoException>>

(***************************************************************************)
(* The store.                                                              *)
(***************************************************************************)
ReadingRow(reading) ==
    [reading_id |-> reading.reading_id, timestamp |-> reading.timestamp,
     license_plate |-> reading.license_plate,
     checkpoint_id |-> reading.checkpoint_id,
     latitude |-> reading.location.latitude,
     longitude |-> reading.location.longitude]

ExposureRow(reading_id, campaign_id, ad_content, timestamp) ==
    [reading_id |-> reading_id, campaign_id |-> campaign_id,
     ad_content |-> ad_content, exposure_timestamp |-> timestamp]

ReadingIdsStored == {r.reading_id : r \in readings}

\* SELECT COUNT(*) FROM ad_exposures ae JOIN license_plate_readings lpr
\*   ON ae.reading_id = lpr.reading_id
\*   WHERE lpr.license_plate = %s AND ae.campaign_id = %s
get_exposure_count(license_plate, campaign_id) ==
    Cardinality({ j \in (1..Len(exposures)) \X readings :
                    /\ exposures[j[1]].reading_id = j[2].reading_id
                    /\ j[2].license_plate = license_plate
                    /\ exposures[j[1]].campaign_id = campaign_id })

\* texts of psycopg2.Error: the code only interpolates them, so each request
\* meets one text and two requests meet different ones
DriverErrorList == <<"connection reset", "statement timeout">>

DriverErrors == {DriverErrorList[k] : k \in 1..Len(DriverErrorList)}

DriverError(p) == DriverErrorList[((p - 1) % Len(DriverErrorList)) + 1]

\* what a statement of request p can meet: "ok", or the text of a psycopg2.Error
StoreOutcomes(p) == {"ok", DriverError(p)}

\* conn.commit() and conn.rollback() end the transaction of the connection
commit(p) == conn' = [conn EXCEPT ![p] = "open"]

rollback(p) == conn' = [conn EXCEPT ![p] = "open"]

(***************************************************************************)
(* lambda_handler, one action per statement that another request can       *)
(* observe.  pc: "start" -> "connect" -> "save_reading" -> "campaign_loop" *)
(* -> "save_exposure" -> "finally" -> "done".                              *)
(***************************************************************************)
Return(p, resp) ==
    /\ response' = [response EXCEPT ![p] = resp]
    /\ pc' = [pc EXCEPT ![p] = "finally"]

\* body = event.get("body"); json.loads(body); validate_reading(body); an
\* exception of validate_reading reaches "except Exception"
parse_and_validate(p) ==
    /\ pc[p] = "start"
    /\ IF event[p].body = "None"
       THEN /\ Return(p, api_response_error(400, <<"Missing request body">>))
            /\ UNCHANGED logs
       ELSE IF event[p].body = "BadJson"
       THEN /\ Return(p, api_response_error(400, <<"Invalid JSON in request body">>))
            /\ UNCHANGED logs
       ELSE LET validated == validate_reading(event[p].json) IN
            IF validated[3] # NoException
            THEN /\ logs' = [logs EXCEPT ![p] =
                                @ \cup {<<"Unhandled error: ", validated[3][2]>>}]
                 /\ Return(p, api_response_error(500,
                        <<"Internal server error: ", validated[3][2]>>))
            ELSE IF ~validated[1]
            THEN /\ Return(p, api_response_error(400, validated[2]))
                 /\ UNCHANGED logs
            ELSE /\ pc' = [pc EXCEPT ![p] = "connect"]
                 /\ UNCHANGED <<response, logs>>
    /\ UNCHANGED <<CAMPAIGNS, readings, exposures, event, conn, idx, campaign,
                   call>>

\* conn = get_db_connection()
get_db_connection(p) ==
    /\ pc[p] = "connect"
    /\ \E outcome \in StoreOutcomes(p) :
          IF outcome = "ok"
          THEN /\ conn' = [conn EXCEPT ![p] = "open"]
               /\ pc' = [pc EXCEPT ![p] = "save_reading"]
               /\ UNCHANGED <<response, logs>>
          ELSE /\ logs' = [logs EXCEPT ![p] =
                              @ \cup {<<"Database connection error: ", outcome>>}]
               /\ Return(p, api_response_error(500,
                      <<"Database error: ", "Failed to connect to database: ",
                        outcome>>))
               /\ UNCHANGED conn
    /\ UNCHANGED <<CAMPAIGNS, readings, exposures, event, idx, campaign, call>>

\* the primary key of license_plate_readings rejects the INSERT
UniqueViolation(reading_id) == reading_id \in ReadingIdsStored

\* save_reading with INSERT ... ON CONFLICT DO UPDATE: a duplicate overwrites
save_reading_upsert(p) ==
    /\ pc[p] = "save_reading"
    /\ LET body == event[p].json IN
       \E outcome \in StoreOutcomes(p) :
          IF outcome # "ok"
          THEN /\ logs' = [logs EXCEPT ![p] =
                              @ \cup {<<"Database error when saving reading: ",
                                        outcome>>}]
               /\ rollback(p)
               /\ Return(p, api_response_error(500,
                      <<"Database error: ", "Failed to save reading: ", outcome>>))
               /\ UNCHANGED <<readings, idx>>
          ELSE /\ readings' =
                      {r \in readings : r.reading_id # body.reading_id}
                          \cup {ReadingRow(body)}
               /\ commit(p)
               /\ pc' = [pc EXCEPT ![p] = "campaign_loop"]
               /\ idx' = [idx EXCEPT ![p] = 1]
               /\ UNCHANGED <<response, logs>>
    /\ UNCHANGED <<CAMPAIGNS, exposures, event, campaign, call>>

\* save_reading whose "except UniqueViolation" rolls back and does not raise
save_reading_ignore_duplicate(p) ==
    /\ pc[p] = "save_reading"
    /\ LET body == event[p].json IN
       \E outcome \in StoreOutcomes(p) :
          IF outcome # "ok"
          THEN /\ logs' = [logs EXCEPT ![p] =
                              @ \cup {<<"Database error when saving reading: ",
                                        outcome>>}]
               /\ rollback(p)
               /\ Return(p, api_response_error(500,
                      <<"Database error: ", "Failed to save reading: ", outcome>>))
               /\ UNCHANGED <<readings, idx>>
          ELSE /\ readings' = IF UniqueViolation(body.reading_id)
                              THEN readings
                              ELSE readings \cup {ReadingRow(body)}
               /\ commit(p)
               /\ pc' = [pc EXCEPT ![p] = "campaign_loop"]
               /\ idx' = [idx EXCEPT ![p] = 1]
               /\ UNCHANGED <<response, logs>>
    /\ UNCHANGED <<CAMPAIGNS, exposures, event, campaign, call>>

\* save_reading whose "except psycopg2.Error" logs and does not raise
save_reading_swallow_error(p) ==
    /\ pc[p] = "save_reading"
    /\ LET body == event[p].json IN
       \E outcome \in StoreOutcomes(p) :
          IF outcome # "ok"
          THEN /\ logs' = [logs EXCEPT ![p] =
                              @ \cup {<<"Database error when saving reading: ",
                                        outcome>>}]
               /\ rollback(p)
               /\ pc' = [pc EXCEPT ![p] = "campaign_loop"]
               /\ idx' = [idx EXCEPT ![p] = 1]
               /\ UNCHANGED <<readings, response>>
          ELSE IF UniqueViolation(body.reading_id)
          THEN /\ rollback(p)
               /\ Return(p, api_response_error(409,
                      <<"Duplicate reading_id: ", body.reading_id>>))
               /\ UNCHANGED <<readings, idx, logs>>
          ELSE /\ readings' = readings \cup {ReadingRow(body)}
               /\ commit(p)
               /\ pc' = [pc EXCEPT ![p] = "campaign_loop"]
               /\ idx' = [idx EXCEPT ![p] = 1]
               /\ UNCHANGED <<response, logs>>
    /\ UNCHANGED <<CAMPAIGNS, exposures, event, campaign, call>>

\* save_reading whose "except psycopg2.Error" raises without conn.rollback()
save_reading_no_rollback(p) ==
    /\ pc[p] = "save_reading"
    /\ LET body == event[p].json IN
       \E outcome \in StoreOutcomes(p) :
          IF outcome # "ok"
          THEN /\ logs' = [logs EXCEPT ![p] =
                              @ \cup {<<"Database error when saving reading: ",
                                        outcome>>}]
               /\ conn' = [conn EXCEPT ![p] = "aborted"]
               /\ Return(p, api_response_error(500,
                      <<"Database error: ", "Failed to save reading: ", outcome>>))
               /\ UNCHANGED <<readings, idx>>
          ELSE IF UniqueViolation(body.reading_id)
          THEN /\ rollback(p)
               /\ Return(p, api_response_error(409,
                      <<"Duplicate reading_id: ", body.reading_id>>))
               /\ UNCHANGED <<readings, idx, logs>>
          ELSE /\ readings' = readings \cup {ReadingRow(body)}
               /\ commit(p)
               /\ pc' = [pc EXCEPT ![p] = "campaign_loop"]
               /\ idx' = [idx EXCEPT ![p] = 1]
               /\ UNCHANGED <<response, logs>>
    /\ UNCHANGED <<CAMPAIGNS, exposures, event, campaign, call>>

\* a handler that issues the reading INSERT again after the store failed
save_reading_retry(p) ==
    /\ pc[p] = "save_reading"
    /\ LET body == event[p].json IN
       \E outcome \in StoreOutcomes(p) :
          IF outcome # "ok"
          THEN /\ logs' = [logs EXCEPT ![p] =
                              @ \cup {<<"Database error when saving reading: ",
                                        outcome>>}]
               /\ rollback(p)
               /\ UNCHANGED <<readings, idx, pc, response>>
          ELSE IF UniqueViolation(body.reading_id)
          THEN /\ rollback(p)
               /\ Return(p, api_response_error(409,
                      <<"Duplicate reading_id: ", body.reading_id>>))
               /\ UNCHANGED <<readings, idx, logs>>
          ELSE /\ readings' = readings \cup {ReadingRow(body)}
               /\ commit(p)
               /\ pc' = [pc EXCEPT ![p] = "campaign_loop"]
               /\ idx' = [idx EXCEPT ![p] = 1]
               /\ UNCHANGED <<response, logs>>
    /\ UNCHANGED <<CAMPAIGNS, exposures, event, campaign, call>>

\* save_reading(conn, body): INSERT and commit, or rollback and raise
save_reading(p) ==
    /\ pc[p] = "save_reading"
    /\ LET body == event[p].json IN
       \E outcome \in StoreOutcomes(p) :
          IF outcome # "ok"
          THEN /\ logs' = [logs EXCEPT ![p] =
                              @ \cup {<<"Database error when saving reading: ",
                                        outcome>>}]
               /\ rollback(p)
               /\ Return(p, api_response_error(500,
                      <<"Database error: ", "Failed to save reading: ", outcome>>))
               /\ UNCHANGED <<readings, idx>>
          ELSE IF UniqueViolation(body.reading_id)
          THEN /\ rollback(p)
               /\ Return(p, api_response_error(409,
                      <<"Duplicate reading_id: ", body.reading_id>>))
               /\ UNCHANGED <<readings, idx, logs>>
          ELSE /\ readings' = readings \cup {ReadingRow(body)}
               /\ commit(p)
               /\ pc' = [pc EXCEPT ![p] = "campaign_loop"]
               /\ idx' = [idx EXCEPT ![p] = 1]
               /\ UNCHANGED <<response, logs>>
    /\ UNCHANGED <<CAMPAIGNS, exposures, event, campaign, call>>

\* a handler that answers a reading without a campaign with an error
ReturnNoCampaign_error(p) ==
    /\ campaign' = [campaign EXCEPT ![p] = 0]
    /\ Return(p, api_response_error(404, <<"No applicable campaign">>))
    /\ UNCHANGED idx

\* return None (also from the except clause): the handler answers 200 with
\* ad_served = null
ReturnNoCampaign(p) ==
    /\ campaign' = [campaign EXCEPT ![p] = 0]
    /\ Return(p, api_response_result(<<>>))
    /\ UNCHANGED idx

\* a loop that gives up at the first campaign that is not applicable
NextCampaign_stop(p) == ReturnNoCampaign(p)

\* the next iteration of "for campaign in CAMPAIGNS", or the end of the loop
NextCampaign(p) ==
    IF idx[p] < Len(CAMPAIGNS)
    THEN /\ idx' = [idx EXCEPT ![p] = @ + 1]
         /\ UNCHANGED <<campaign, response, pc>>
    ELSE ReturnNoCampaign(p)

\* a loop body without the time-window condition
MatchesCheckpointOnly(body, c) == InList(body.checkpoint_id, c.locations)

\* the two conditions of the loop body that need no query
MatchesCheckpointAndTime(body, c) ==
    /\ InList(body.checkpoint_id, c.locations)
    /\ is_in_time_window(fromisoformat(body.timestamp),
                         c.time_window.start, c.time_window.end)

\* the comparison off by one
BelowCap_inclusive(exposure_count, c) ==
    exposure_count <= c.max_exposures_per_plate

\* exposure_count < campaign["max_exposures_per_plate"]
BelowCap(exposure_count, c) == exposure_count < c.max_exposures_per_plate

\* determine_applicable_campaign(conn, body): one iteration of its loop.  The
\* SELECT opens a transaction that the function neither commits nor rolls
\* back; its "except Exception" logs and returns None.
determine_applicable_campaign(p) ==
    /\ pc[p] = "campaign_loop"
    /\ LET body == event[p].json
           c == CAMPAIGNS[idx[p]]
       IN IF Len(CAMPAIGNS) = 0
          THEN ReturnNoCampaign(p) /\ UNCHANGED <<conn, logs>>
          ELSE IF ~MatchesCheckpointAndTime(body, c)
          THEN NextCampaign(p) /\ UNCHANGED <<conn, logs>>
          ELSE \E outcome \in StoreOutcomes(p) :
                 IF outcome # "ok"
                 THEN /\ conn' = [conn EXCEPT ![p] = "aborted"]
                      /\ logs' = [logs EXCEPT ![p] =
                              @ \cup {<<"Error getting exposure count: ", outcome>>,
                                      <<"Error determining applicable campaign: ",
                                        "Failed to get exposure count: ", outcome>>}]
                      /\ ReturnNoCampaign(p)
                 ELSE IF BelowCap(get_exposure_count(body.license_plate,
                                                     c.campaign_id), c)
                 THEN /\ conn' = [conn EXCEPT ![p] = "in_transaction"]
                      /\ campaign' = [campaign EXCEPT ![p] = idx[p]]
                      /\ pc' = [pc EXCEPT ![p] = "save_exposure"]
                      /\ UNCHANGED <<idx, response, logs>>
                 ELSE /\ conn' = [conn EXCEPT ![p] = "in_transaction"]
                      /\ NextCampaign(p)
                      /\ UNCHANGED logs
    /\ UNCHANGED <<CAMPAIGNS, readings, exposures, event, call>>

\* the foreign key of ad_exposures rejects the INSERT
ForeignKeyViolation(reading_id) == reading_id \notin ReadingIdsStored

\* a handler that goes on looking for campaigns after it saved an exposure
save_exposure_continue(p) ==
    /\ pc[p] = "save_exposure"
    /\ LET body == event[p].json
           c == CAMPAIGNS[campaign[p]]
       IN \E outcome \in StoreOutcomes(p) :
          IF outcome # "ok"
          THEN /\ logs' = [logs EXCEPT ![p] =
                              @ \cup {<<"Database error when saving exposure: ",
                                        outcome>>}]
               /\ rollback(p)
               /\ Return(p, api_response_error(500,
                      <<"Database error: ", "Failed to save exposure: ", outcome>>))
               /\ UNCHANGED exposures
          ELSE IF ForeignKeyViolation(body.reading_id)
          THEN /\ rollback(p)
               /\ Return(p, api_response_error(409,
                      <<"Invalid reading_id: ", body.reading_id,
                        " - doesn't exist in readings table">>))
               /\ UNCHANGED <<exposures, logs>>
          ELSE /\ exposures' = Append(exposures,
                      ExposureRow(body.reading_id, c.campaign_id, c.ad_content,
                                  body.timestamp))
               /\ commit(p)
               /\ pc' = [pc EXCEPT ![p] = "campaign_loop"]
               /\ UNCHANGED <<response, logs>>
    /\ UNCHANGED <<CAMPAIGNS, readings, event, idx, campaign, call>>

\* save_exposure whose "except psycopg2.Error" logs and does not raise: the
\* handler goes on to report the campaign
save_exposure_swallow_error(p) ==
    /\ pc[p] = "save_exposure"
    /\ LET body == event[p].json
           c == CAMPAIGNS[campaign[p]]
       IN \E outcome \in StoreOutcomes(p) :
          IF outcome # "ok"
          THEN /\ logs' = [logs EXCEPT ![p] =
                              @ \cup {<<"Database error when saving exposure: ",
                                        outcome>>}]
               /\ rollback(p)
               /\ Return(p, api_response_result(<<c.campaign_id, c.ad_content>>))
               /\ UNCHANGED exposures
          ELSE IF ForeignKeyViolation(body.reading_id)
          THEN /\ rollback(p)
               /\ Return(p, api_response_error(409,
                      <<"Invalid reading_id: ", body.reading_id,
                        " - doesn't exist in readings table">>))
               /\ UNCHANGED <<exposures, logs>>
          ELSE /\ exposures' = Append(exposures,
                      ExposureRow(body.reading_id, c.campaign_id, c.ad_content,
                                  body.timestamp))
               /\ commit(p)
               /\ Return(p, api_response_result(<<c.campaign_id, c.ad_content>>))
               /\ UNCHANGED logs
    /\ UNCHANGED <<CAMPAIGNS, readings, event, idx, campaign, call>>

\* save_exposure that keeps one exposure row per reading's campaign: the INSERT
\* replaces the rows the campaign already has
save_exposure_replace(p) ==
    /\ pc[p] = "save_exposure"
    /\ LET body == event[p].json
           c == CAMPAIGNS[campaign[p]]
       IN \E outcome \in StoreOutcomes(p) :
          IF outcome # "ok"
          THEN /\ logs' = [logs EXCEPT ![p] =
                              @ \cup {<<"Database error when saving exposure: ",
                                        outcome>>}]
               /\ rollback(p)
               /\ Return(p, api_response_error(500,
                      <<"Database error: ", "Failed to save exposure: ", outcome>>))
               /\ UNCHANGED exposures
          ELSE IF ForeignKeyViolation(body.reading_id)
          THEN /\ rollback(p)
               /\ Return(p, api_response_error(409,
                      <<"Invalid reading_id: ", body.reading_id,
                        " - doesn't exist in readings table">>))
               /\ UNCHANGED <<exposures, logs>>
          ELSE /\ exposures' = Append(
                      SelectSeq(exposures,
                                LAMBDA e : e.campaign_id # c.campaign_id),
                      ExposureRow(body.reading_id, c.campaign_id, c.ad_content,
                                  body.timestamp))
               /\ commit(p)
               /\ Return(p, api_response_result(<<c.campaign_id, c.ad_content>>))
               /\ UNCHANGED logs
    /\ UNCHANGED <<CAMPAIGNS, readings, event, idx, campaign, call>>

\* save_exposure(conn, reading_id, campaign_id, ad_content, timestamp) and the
\* handler's "result[ad_served] = ..." after it
save_exposure(p) ==
    /\ pc[p] = "save_exposure"
    /\ LET body == event[p].json
           c == CAMPAIGNS[campaign[p]]
       IN \E outcome \in StoreOutcomes(p) :
          IF outcome # "ok"
          THEN /\ logs' = [logs EXCEPT ![p] =
                              @ \cup {<<"Database error when saving exposure: ",
                                        outcome>>}]
               /\ rollback(p)
               /\ Return(p, api_response_error(500,
                      <<"Database error: ", "Failed to save exposure: ", outcome>>))
               /\ UNCHANGED exposures
          ELSE IF ForeignKeyViolation(body.reading_id)
          THEN /\ rollback(p)
               /\ Return(p, api_response_error(409,
                      <<"Invalid reading_id: ", body.reading_id,
                        " - doesn't exist in readings table">>))
               /\ UNCHANGED <<exposures, logs>>
          ELSE /\ exposures' = Append(exposures,
                      ExposureRow(body.reading_id, c.campaign_id, c.ad_content,
                                  body.timestamp))
               /\ commit(p)
               /\ Return(p, api_response_result(<<c.campaign_id, c.ad_content>>))
               /\ UNCHANGED logs
    /\ UNCHANGED <<CAMPAIGNS, readings, event, idx, campaign, call>>

\* a handler that closes its connection on the success path only
finally_close_success_only(p) ==
    /\ pc[p] = "finally"
    /\ conn' = [conn EXCEPT ![p] = IF @ = "None" \/ response[p].statusCode # 200
                                   THEN @ ELSE "closed"]
    /\ pc' = [pc EXCEPT ![p] = "done"]
    /\ UNCHANGED <<CAMPAIGNS, readings, exposures, event, idx, campaign,
                   response, logs, call>>

\* finally: if conn is not None: conn.close(), which ends whatever transaction
\* is in progress; then the response is returned
finally_close(p) ==
    /\ pc[p] = "finally"
    /\ conn' = [conn EXCEPT ![p] = IF @ = "None" THEN @ ELSE "closed"]
    /\ pc' = [pc EXCEPT ![p] = "done"]
    /\ UNCHANGED <<CAMPAIGNS, readings, exposures, event, idx, campaign,
                   response, logs, call>>

\* any request takes its next step
Next ==
    \/ \E p \in Requests : parse_and_validate(p)
    \/ \E p \in Requests : get_db_connection(p)
    \/ \E p \in Requests : save_reading(p)
    \/ \E p \in Requests : determine_applicable_campaign(p)
    \/ \E p \in Requests : save_exposure(p)
    \/ \E p \in Requests : finally_close(p)

(***************************************************************************)
(* Specifications.                                                         *)
(***************************************************************************)
NumRequests == 2

NoCall == [fn |-> "none"]

\* a catalog in which one checkpoint and one time of day match two campaigns
OverlappingCampaigns ==
    << Campaign("CAMP_A", <<"CHECK_01">>, HHMM(8, 0), HHMM(20, 0), 1, "AD_A"),
       Campaign("CAMP_B", <<"CHECK_01", "CHECK_03">>, HHMM(10, 0), HHMM(22, 0),
                1, "AD_B") >>

Catalogs == {HardCodedCampaigns, OverlappingCampaigns}

ReadingIdList == <<"R1", "R2", "R3", "R4", "R5">>

PlateList == <<"ABC123", "XYZ789">>

ValidReading(id, plate, checkpoint, h, m) ==
    Reading(id, Timestamp(h, m, 0), plate, checkpoint, 37, -122)

\* (checkpoint, hour, minute) of the readings submitted: in the window of the
\* first campaign of either catalog (and of both campaigns of the second);
\* matching only the second campaign; and matching none (CHECK_02 at 21:00 is
\* covered by CAMP_001 outside its window and covered by no campaign of the
\* second catalog)
Sightings ==
    { <<"CHECK_01", 14, 30>>, <<"CHECK_03", 21, 0>>, <<"CHECK_02", 21, 0>> }

Events ==
    { JsonEvent(ValidReading(id, plate, s[1], s[2], s[3])) :
        id \in {"R1", "R2"}, plate \in {PlateList[k] : k \in 1..Len(PlateList)},
        s \in Sightings }
    \cup { [body |-> "None", json |-> ValidReading("R1", "ABC123", "CHECK_01", 14, 30)],
           JsonEvent(Reading("R1", Timestamp(14, 30, 0), "ABC123", "CHECK_01",
                             100, -122)) }

IndexIn(x, list) == CHOOSE k \in 1..Len(list) : list[k] = x

\* an arbitrary total order of the events, by their contents
Rank(e) ==
    LET r == e.json IN
      IndexIn(e.body, <<"None", "BadJson", "Json">>) * 100000
    + IndexIn(r.reading_id, ReadingIdList) * 10000
    + IndexIn(r.license_plate, PlateList) * 1000
    + IndexIn(r.checkpoint_id, <<"", "CHECK_01", "CHECK_02", "CHECK_03",
                                 "CHECK_04", "CHECK_05">>) * 100
    + (IF r.location.latitude > 90 THEN 50 ELSE 0)
    + r.timestamp.hour

\* the names in use are the first ones of the list
UsesFirst(names, list) ==
    \A k \in 2..Len(list) : list[k] \in names => list[k - 1] \in names

\* Requests are numbered in the order of their events: the numbering carries no
\* meaning, every request runs the same handler.  Reading ids and plates are
\* only ever compared for equality, so the ones in use are the first of their
\* lists.
InitHandler(n, catalogs, events) ==
    /\ CAMPAIGNS \in catalogs
    /\ readings = {}
    /\ exposures = <<>>
    /\ event \in [1..n -> events]
    /\ \A p \in 1..(n - 1) : Rank(event[p]) <= Rank(event[p + 1])
    /\ UsesFirst({event[p].json.reading_id : p \in 1..n}, ReadingIdList)
    /\ UsesFirst({event[p].json.license_plate : p \in 1..n}, PlateList)
    /\ pc = [p \in 1..n |-> "start"]
    /\ conn = [p \in 1..n |-> "None"]
    /\ idx = [p \in 1..n |-> 0]
    /\ campaign = [p \in 1..n |-> 0]
    /\ response = [p \in 1..n |-> NoResponse]
    /\ logs = [p \in 1..n |-> {}]

Init == InitHandler(NumRequests, Catalogs, Events) /\ call = NoCall

Spec == Init /\ [][Next]_vars

(***************************************************************************)
(* SpecCap: cap + 1 requests with distinct reading_ids for one plate, at a *)
(* checkpoint and a time that match only CAMP_001, against the catalog of  *)
(* app.py and an empty store.                                              *)
(***************************************************************************)
CapRequests == HardCodedCampaigns[1].max_exposures_per_plate + 1

InitCap ==
    /\ InitHandler(CapRequests, {HardCodedCampaigns},
                   { JsonEvent(ValidReading(ReadingIdList[k], "ABC123",
                                            "CHECK_01", 14, 30)) :
                       k \in 1..CapRequests })
    /\ \A p \in 1..CapRequests : event[p].json.reading_id = ReadingIdList[p]
    /\ call = NoCall

SpecCap == InitCap /\ [][Next]_vars

(***************************************************************************)
(* Vocabulary of the properties.                                           *)
(***************************************************************************)
Body(p) == event[p].json

IsValid(p) == event[p].body = "Json" /\ validate_reading(Body(p))[1]

\* every store failure is logged by the request that met it
FaultFree(p) == logs[p] = {}

\* the reading insert of request p committed: the campaign loop was entered
Stored(p) == idx[p] > 0

RowsOf(reading_id) == {r \in readings : r.reading_id = reading_id}

ExposuresOf(reading_id) ==
    {k \in 1..Len(exposures) : exposures[k].reading_id = reading_id}

PlatesSeen == {event[p].json.license_plate : p \in Requests}

IdsSeen == {event[p].json.reading_id : p \in Requests}

\* rows of ad_exposures for a campaign whose reading has the plate
ExposureRowsFor(license_plate, campaign_id) ==
    {k \in 1..Len(exposures) :
        /\ exposures[k].campaign_id = campaign_id
        /\ \E r \in readings : /\ r.reading_id = exposures[k].reading_id
                               /\ r.license_plate = license_plate}

\* C1: for every (license_plate, campaign) the number of committed exposure
\* rows whose reading has that plate is at most the campaign's
\* max_exposures_per_plate, in every reachable state.
C1_CapNeverExceeded ==
    \A plate \in PlatesSeen : \A k \in 1..Len(CAMPAIGNS) :
        Cardinality(ExposureRowsFor(plate, CAMPAIGNS[k].campaign_id))
            <= CAMPAIGNS[k].max_exposures_per_plate

\* C2: once cap + 1 concurrent eligible requests for one plate have all
\* returned without a store failure, exactly cap exposure rows are committed
\* and exactly one request got the success response with ad_served = null.
C2_CapPlusOne ==
    (\A p \in Requests : Returned(p) /\ FaultFree(p))
        => /\ Cardinality(ExposureRowsFor("ABC123", "CAMP_001"))
                = HardCodedCampaigns[1].max_exposures_per_plate
           /\ Cardinality({p \in Requests :
                              /\ response[p].statusCode = 200
                              /\ response[p].ad_served = <<>>}) = 1

\* C3: a request whose reading_id is already stored when its insert runs
\* changes neither table (the stored reading keeps its contents, no exposure
\* row is added), answers 409 unless the store itself failed, and does nothing
\* to the tables afterwards.
C3_ResubmitIsDuplicate ==
    [][\A p \in Requests :
         /\ (/\ pc[p] = "save_reading"
             /\ Body(p).reading_id \in ReadingIdsStored
             /\ pc'[p] # pc[p])
            => /\ readings' = readings
               /\ exposures' = exposures
               /\ pc'[p] = "finally"
               /\ ~Stored(p)'
               /\ (logs'[p] = logs[p]) => response'[p].statusCode = 409
         /\ (pc[p] \in {"finally", "done"} /\ pc'[p] # pc[p])
            => readings' = readings /\ exposures' = exposures]_vars

\* a duplicate with other contents than the stored reading was answered 409
C3_Witness ==
    \E p \in Requests :
        /\ Returned(p)
        /\ response[p].statusCode = 409
        /\ RowsOf(Body(p).reading_id) # {}
        /\ ReadingRow(Body(p)) \notin readings

SameId(id) == {p \in Requests : IsValid(p) /\ Body(p).reading_id = id}

\* C4: among the requests carrying one reading_id at most one has its reading
\* stored and goes on to the campaign evaluation, at most one reading row and
\* one exposure row exist for the id, and once all of them returned without a
\* store failure exactly one was processed and every other got 409.
C4_OneOfSameIdStored ==
    \A id \in IdsSeen :
        /\ Cardinality({p \in SameId(id) : Stored(p)}) <= 1
        /\ Cardinality(RowsOf(id)) <= 1
        /\ Cardinality(ExposuresOf(id)) <= 1
        /\ (SameId(id) # {} /\ \A p \in SameId(id) : Returned(p) /\ FaultFree(p))
            => \E q \in SameId(id) :
                  /\ Stored(q)
                  /\ response[q].statusCode = 200
                  /\ \A p \in SameId(id) \ {q} :
                        ~Stored(p) /\ response[p].statusCode = 409

\* one request is still evaluating campaigns while another with its
\* reading_id has already been answered 409
C4_Witness ==
    \E p, q \in Requests :
        /\ p # q
        /\ Body(p).reading_id = Body(q).reading_id
        /\ IsValid(p) /\ IsValid(q)
        /\ pc[q] \in {"campaign_loop", "save_exposure"}
        /\ Returned(p) /\ response[p].statusCode = 409

\* C5: each reading_id is referenced by at most one exposure row, so no
\* reading is served more than one campaign.
C5_OneExposurePerReading ==
    \A j, k \in 1..Len(exposures) :
        exposures[j].reading_id = exposures[k].reading_id => j = k

\* a reading that matches two campaigns of the catalog was served one
C5_Witness ==
    \E p \in Requests :
        /\ Returned(p)
        /\ Cardinality(ExposuresOf(Body(p).reading_id)) = 1
        /\ Cardinality({k \in 1..Len(CAMPAIGNS) :
                           MatchesCheckpointAndTime(Body(p), CAMPAIGNS[k])}) = 2

\* C6: every exposure row references a stored reading, and a request is at
\* its campaign evaluation or its exposure insert only after its own reading
\* row was committed.
C6_ExposureReferencesStoredReading ==
    /\ \A k \in 1..Len(exposures) : exposures[k].reading_id \in ReadingIdsStored
    /\ \A p \in Requests :
          pc[p] \in {"campaign_loop", "save_exposure"}
              => ReadingRow(Body(p)) \in readings

\* a request committed an exposure row
C6_Witness ==
    \E p \in Requests :
        /\ Returned(p)
        /\ response[p].statusCode = 200
        /\ response[p].ad_served # <<>>
        /\ ExposuresOf(Body(p).reading_id) # {}

(***************************************************************************)
(* The three conditions of a campaign, read off the catalog entry and the  *)
(* tables without the code's parsing and query.                            *)
(***************************************************************************)
HourOf(hhmm) == DigitValue(hhmm[1]) * 10 + DigitValue(hhmm[2])

MinuteOf(hhmm) == DigitValue(hhmm[4]) * 10 + DigitValue(hhmm[5])

\* (h1, m1) is not later in the day than (h2, m2)
NotAfter(h1, m1, h2, m2) == h1 < h2 \/ (h1 = h2 /\ m1 <= m2)

Covers(c, body) == body.checkpoint_id \in {c.locations[k] : k \in 1..Len(c.locations)}

InWindow(c, body) ==
    /\ NotAfter(HourOf(c.time_window.start), MinuteOf(c.time_window.start),
                body.timestamp.hour, body.timestamp.minute)
    /\ NotAfter(body.timestamp.hour, body.timestamp.minute,
                HourOf(c.time_window.end), MinuteOf(c.time_window.end))

CapReached(c, body) ==
    Cardinality(ExposureRowsFor(body.license_plate, c.campaign_id))
        >= c.max_exposures_per_plate

Satisfies(k, body) ==
    /\ Covers(CAMPAIGNS[k], body)
    /\ InWindow(CAMPAIGNS[k], body)
    /\ ~CapReached(CAMPAIGNS[k], body)

\* the first campaign in catalog order that satisfies all three, 0 if none
FirstSatisfying(body) ==
    IF \A k \in 1..Len(CAMPAIGNS) : ~Satisfies(k, body)
    THEN 0
    ELSE CHOOSE k \in 1..Len(CAMPAIGNS) :
            Satisfies(k, body) /\ \A j \in 1..(k - 1) : ~Satisfies(j, body)

\* request p leaves the loop of determine_applicable_campaign in this step
LeavesLoop(p) == pc[p] = "campaign_loop" /\ pc'[p] # "campaign_loop"

\* a query of request p fails in this step
QueryFails(p) == logs'[p] # logs[p]

\* C7: when determine_applicable_campaign returns, the campaign it returns is
\* the first one in catalog order that satisfies all three conditions in the
\* store state of that moment, and none if no campaign satisfies them (a
\* failed count query makes it return none).
C7_FirstMatchWins ==
    [][\A p \in Requests :
          LeavesLoop(p) =>
              IF QueryFails(p)
              THEN campaign'[p] = 0
              ELSE campaign'[p] = FirstSatisfying(Body(p))]_vars

\* two campaigns satisfy all three conditions and the first one was returned
C7_Witness ==
    \E p \in Requests :
        /\ pc[p] = "save_exposure"
        /\ campaign[p] = 1
        /\ Satisfies(1, Body(p))
        /\ Satisfies(2, Body(p))

\* C8: if the plate has reached the cap of a campaign A that matches the
\* reading's checkpoint and time, and a later campaign B matches too with its
\* cap not reached, the evaluation returns a campaign other than A and not
\* after B; and the campaign returned to a request that meets no store
\* failure is recorded as its exposure and reported as ad_served.
C8_NextCampaignAfterCap ==
    /\ [][\A p \in Requests :
            (LeavesLoop(p) /\ ~QueryFails(p)) =>
                \A a, b \in 1..Len(CAMPAIGNS) :
                    (/\ a < b
                     /\ Covers(CAMPAIGNS[a], Body(p))
                     /\ InWindow(CAMPAIGNS[a], Body(p))
                     /\ CapReached(CAMPAIGNS[a], Body(p))
                     /\ Satisfies(b, Body(p)))
                    => /\ campaign'[p] \notin {0, a}
                       /\ campaign'[p] <= b]_vars
    /\ [](\A p \in Requests :
            (Returned(p) /\ FaultFree(p) /\ campaign[p] # 0) =>
                LET c == CAMPAIGNS[campaign[p]] IN
                /\ response[p] =
                       api_response_result(<<c.campaign_id, c.ad_content>>)
                /\ \E k \in 1..Len(exposures) :
                       exposures[k] = ExposureRow(Body(p).reading_id, c.campaign_id,
                                                  c.ad_content, Body(p).timestamp))

\* a reading was served the second campaign while its plate was at the cap of
\* the first, which matches its checkpoint and time
C8_Witness ==
    \E p \in Requests :
        /\ Returned(p)
        /\ campaign[p] = 2
        /\ response[p].ad_served = <<CAMPAIGNS[2].campaign_id, CAMPAIGNS[2].ad_content>>
        /\ Covers(CAMPAIGNS[1], Body(p))
        /\ InWindow(CAMPAIGNS[1], Body(p))
        /\ CapReached(CAMPAIGNS[1], Body(p))

NoCampaignMatches(body) ==
    \A k \in 1..Len(CAMPAIGNS) :
        ~Covers(CAMPAIGNS[k], body) \/ ~InWindow(CAMPAIGNS[k], body)

\* C9: for a reading whose checkpoint no campaign covers, or whose time is
\* outside the window of every campaign that covers it, no campaign is
\* returned and the request records no exposure: it never reaches the exposure
\* insert, no exposure row references its reading, and its success response
\* has ad_served = null.
C9_NoMatchNoExposure ==
    \A p \in Requests :
        (IsValid(p) /\ NoCampaignMatches(Body(p))) =>
            /\ campaign[p] = 0
            /\ pc[p] # "save_exposure"
            /\ Stored(p) => ExposuresOf(Body(p).reading_id) = {}
            /\ response[p].statusCode = 200 => response[p].ad_served = <<>>

\* a stored reading at a checkpoint that a campaign covers, at a time outside
\* that campaign's window, was answered with no ad
C9_Witness ==
    \E p \in Requests :
        /\ Returned(p) /\ Stored(p) /\ response[p].statusCode = 200
        /\ response[p].ad_served = <<>>
        /\ \E k \in 1..Len(CAMPAIGNS) : Covers(CAMPAIGNS[k], Body(p))
        /\ NoCampaignMatches(Body(p))

(***************************************************************************)
(* SpecWindow: is_in_time_window called directly, as test.py does, on      *)
(* reading times and window bounds around the boundaries.                  *)
(***************************************************************************)
WindowHours == {7, 8, 20}

WindowMinutes == {0, 1, 59}

\* texts that are no "HH:MM"
MalformedTimes == { <<"i", "n", "v", "a", "l", "i", "d">>,
                    <<"0", "8", ":", "0", "0", ":", "0", "0">>,
                    <<"0", "8", ":">> }

WindowTimes == {HHMM(h, m) : h \in WindowHours, m \in WindowMinutes}

\* UTC offsets of the reading times, in minutes east of UTC: "Z" and "+02:00"
WindowOffsets == {0, 120}

InitWindow ==
    /\ InitHandler(0, {HardCodedCampaigns}, Events)
    /\ call \in [fn : {"is_in_time_window"},
                 reading_time : {fromisoformat(Timestamp(h, m, off)) :
                                    h \in WindowHours, m \in WindowMinutes,
                                    off \in WindowOffsets},
                 start_time_str : WindowTimes \cup MalformedTimes,
                 end_time_str : WindowTimes \cup MalformedTimes,
                 returned : {FALSE},
                 result : {FALSE}]

call_is_in_time_window ==
    /\ call.fn = "is_in_time_window"
    /\ ~call.returned
    /\ call' = [call EXCEPT
                  !.returned = TRUE,
                  !.result = is_in_time_window(call.reading_time,
                                               call.start_time_str,
                                               call.end_time_str)]
    /\ UNCHANGED handlerVars

NextWindow == call_is_in_time_window

SpecWindow == InitWindow /\ [][NextWindow]_vars

WellFormed(hhmm) == hhmm \in WindowTimes

\* the minute of the day that follows / precedes (h, m)
NextMinute(h, m) == IF m = 59 THEN <<h + 1, 0>> ELSE <<h, m + 1>>

PrevMinute(h, m) == IF m = 0 THEN <<h - 1, 59>> ELSE <<h, m - 1>>

\* C10: for a window with start <= end, is_in_time_window is true exactly
\* for the reading times from the start minute to the end minute, both
\* included: true at the start minute and at the end minute, false one minute
\* before the start and one minute after the end.
C10_WindowInclusive ==
    (/\ call.fn = "is_in_time_window"
     /\ call.returned
     /\ WellFormed(call.start_time_str)
     /\ WellFormed(call.end_time_str)
     /\ NotAfter(HourOf(call.start_time_str), MinuteOf(call.start_time_str),
                 HourOf(call.end_time_str), MinuteOf(call.end_time_str)))
    => LET sh == HourOf(call.start_time_str)
           sm == MinuteOf(call.start_time_str)
           eh == HourOf(call.end_time_str)
           em == MinuteOf(call.end_time_str)
           rt == <<call.reading_time.hour, call.reading_time.minute>>
       IN /\ call.result <=> (NotAfter(sh, sm, rt[1], rt[2])
                              /\ NotAfter(rt[1], rt[2], eh, em))
          /\ rt = <<sh, sm>> => call.result
          /\ rt = <<eh, em>> => call.result
          /\ rt = PrevMinute(sh, sm) => ~call.result
          /\ rt = NextMinute(eh, em) => ~call.result

\* a reading at exactly the end minute of a window that is longer than a
\* minute was found in the window
C10_Witness ==
    /\ call.fn = "is_in_time_window"
    /\ call.returned
    /\ call.result
    /\ WellFormed(call.start_time_str)
    /\ WellFormed(call.end_time_str)
    /\ call.start_time_str # call.end_time_str
    /\ call.reading_time.hour = HourOf(call.end_time_str)
    /\ call.reading_time.minute = MinuteOf(call.end_time_str)

(***************************************************************************)
(* Store failures.                                                         *)
(***************************************************************************)
\* the statement whose failure request p logged
CountQueryFailed(p) ==
    \E l \in logs[p] : l[1] = "Error getting exposure count: "

ExposureInsertFailed(p) ==
    \E l \in logs[p] : l[1] = "Database error when saving exposure: "

ReadingInsertFailed(p) ==
    \E l \in logs[p] : l[1] = "Database error when saving reading: "

ConnectFailed(p) ==
    \E l \in logs[p] : l[1] = "Database connection error: "

\* the response of request p is decided
Answered(p) == pc[p] \in {"finally", "done"}

\* C11: a request whose exposure-count query failed is not answered with the
\* success response {processed: true, ad_served: null}; the failure is
\* reported as a store failure (500).
C11_QueryFaultIsReported ==
    \A p \in Requests :
        (Answered(p) /\ CountQueryFailed(p)) =>
            /\ response[p] # api_response_result(<<>>)
            /\ response[p].statusCode = 500

\* C12: a request whose exposure insert failed has its reading row stored, no
\* exposure row references its reading, and its response is the 500 error
\* with no ad_served campaign (never the success response with an ad).
C12_ExposureFailureIsError ==
    \A p \in Requests :
        ExposureInsertFailed(p) =>
            /\ Answered(p)
            /\ ReadingRow(Body(p)) \in readings
            /\ ExposuresOf(Body(p).reading_id) = {}
            /\ response[p].statusCode = 500
            /\ ~response[p].processed
            /\ response[p].ad_served = <<>>

\* the exposure insert of a request failed after its reading was committed
C12_Witness ==
    \E p \in Requests :
        /\ Returned(p)
        /\ ExposureInsertFailed(p)
        /\ campaign[p] # 0
        /\ RowsOf(Body(p).reading_id) = {ReadingRow(Body(p))}

\* C13: when the campaign evaluation of a request ends with no campaign
\* satisfying checkpoint, window and cap in the store state of that moment,
\* the request is answered 200 with processed = true and ad_served = null and
\* the step adds no row; and every answered request whose reading was stored
\* and that got no campaign has that success response, its reading row stored
\* and no exposure row for its reading (it never gets an error response).
C13_NoCampaignIsSuccess ==
    /\ [][\A p \in Requests :
            (LeavesLoop(p) /\ FirstSatisfying(Body(p)) = 0) =>
                /\ response'[p] = api_response_result(<<>>)
                /\ pc'[p] = "finally"
                /\ readings' = readings
                /\ exposures' = exposures]_vars
    /\ [](\A p \in Requests :
            (Answered(p) /\ Stored(p) /\ campaign[p] = 0) =>
                /\ response[p] = api_response_result(<<>>)
                /\ ReadingRow(Body(p)) \in readings
                /\ ExposuresOf(Body(p).reading_id) = {})

\* a reading whose plate is at the cap of every campaign that matches its
\* checkpoint and time was answered with no ad, without any store failure
C13_Witness ==
    \E p \in Requests :
        /\ Returned(p) /\ FaultFree(p)
        /\ response[p] = api_response_result(<<>>)
        /\ ~NoCampaignMatches(Body(p))
        /\ \A k \in 1..Len(CAMPAIGNS) :
              (Covers(CAMPAIGNS[k], Body(p)) /\ InWindow(CAMPAIGNS[k], Body(p)))
                  => CapReached(CAMPAIGNS[k], Body(p))

StoreSteps == {"save_reading", "campaign_loop", "save_exposure"}

\* C14: a store statement that fails or is rejected leaves both tables as they
\* were; when a request is about to return a 409 or 500 error the transaction
\* of its connection has been rolled back (no transaction is in progress or
\* aborted); closing the connection changes no table; and by the time any
\* response is returned the connection, with whatever transaction a failed
\* count query left on it, is closed.
C14_RolledBackBeforeError ==
    /\ [][\A p \in Requests :
            /\ (/\ pc[p] \in StoreSteps
                /\ \/ logs'[p] # logs[p]
                   \/ response'[p].statusCode \in {409, 500})
               => readings' = readings /\ exposures' = exposures
            /\ (pc[p] = "finally" /\ pc'[p] = "done")
               => readings' = readings /\ exposures' = exposures]_vars
    /\ [](\A p \in Requests :
            /\ (/\ pc[p] = "finally"
                /\ response[p].statusCode \in {409, 500}
                /\ conn[p] # "None")
               => conn[p] = "open"
            /\ Returned(p) => conn[p] \in {"None", "closed"})

\* one request is about to return the 500 of a failed reading insert and
\* another one the 500 of a failed exposure insert, each holding its
\* connection with no transaction left on it
C14_Witness ==
    \E p, q \in Requests :
        /\ pc[p] = "finally" /\ ReadingInsertFailed(p)
        /\ response[p].statusCode = 500 /\ conn[p] = "open"
        /\ pc[q] = "finally" /\ ExposureInsertFailed(q)
        /\ response[q].statusCode = 500 /\ conn[q] = "open"

(***************************************************************************)
(* SpecInput: the handler on every kind of request body, against the       *)
(* catalog of app.py: no body, a body that is no JSON, JSON that is no      *)
(* object, objects that validate_reading rejects, and readings that reach  *)
(* the store (with and without a matching campaign, sharing one            *)
(* reading_id).                                                            *)
(***************************************************************************)
\* json.loads gave a number: no dict
NumberPayload ==
    [ValidReading("R1", "ABC123", "CHECK_01", 14, 30) EXCEPT
        !.type = "number", !.fields = {}]

\* "latitude": 1000...0 with more digits than a float holds
BigLatitude ==
    [ValidReading("R1", "ABC123", "CHECK_01", 14, 30) EXCEPT
        !.location.kinds.latitude = "bigint"]

InputEvents ==
    { [body |-> "None", json |-> ValidReading("R1", "ABC123", "CHECK_01", 14, 30)],
      [body |-> "BadJson", json |-> ValidReading("R1", "ABC123", "CHECK_01", 14, 30)],
      JsonEvent(Reading("R1", Timestamp(14, 30, 0), "ABC123", "CHECK_01", 100, -122)),
      JsonEvent(Without(ValidReading("R1", "ABC123", "CHECK_01", 14, 30), "timestamp")),
      JsonEvent(NumberPayload),
      JsonEvent(BigLatitude),
      JsonEvent(ValidReading("R1", "ABC123", "CHECK_01", 14, 30)),
      JsonEvent(ValidReading("R1", "ABC123", "CHECK_02", 21, 0)) }

InitInput ==
    /\ InitHandler(NumRequests, {HardCodedCampaigns}, InputEvents)
    /\ call = NoCall

SpecInput == InitInput /\ [][Next]_vars

\* validate_reading does not accept the body of request p: there is none, it
\* is no JSON, or it is no valid reading
Rejected(p) == ~IsValid(p)

\* request p met a failure of the store at a statement that has an error path
StoreFailed(p) ==
    ConnectFailed(p) \/ ReadingInsertFailed(p) \/ ExposureInsertFailed(p)

\* C15: every answered request has a status of the taxonomy: 400 when its
\* body is missing, unparsable or fails validation; 409 when its reading_id
\* was already stored; 500 when the connection, the reading insert or the
\* exposure insert failed (never 400 or 409 then); and 200 only with its
\* reading row stored.
C15_StatusFollowsTaxonomy ==
    \A p \in Requests :
        Answered(p) =>
            /\ Rejected(p) => response[p].statusCode = 400
            /\ StoreFailed(p) => response[p].statusCode = 500
            /\ (~Rejected(p) /\ ~StoreFailed(p) /\ ~Stored(p))
                  => response[p].statusCode = 409
            /\ response[p].statusCode = 200
                  => Stored(p) /\ ReadingRow(Body(p)) \in readings

(***************************************************************************)
(* SpecValidate: validate_reading called directly, as test.py does, on     *)
(* payloads of every shape.                                                *)
(***************************************************************************)
AllFields == {RequiredFields[k] : k \in 1..Len(RequiredFields)}

\* (type, names found by "in"): objects with all fields, with one missing and
\* with two missing; a number and null; strings and arrays that hold none or
\* all of the names
Shapes ==
    {<<"object", AllFields \ {f}>> : f \in AllFields}
    \cup { <<"object", AllFields>>,
           <<"object", AllFields \ {"timestamp", "location"}>>,
           <<"number", {}>>, <<"null", {}>>,
           <<"string", {}>>, <<"string", AllFields>>,
           <<"array", {}>>, <<"array", AllFields>> }

Payloads ==
    { [type |-> sh[1], fields |-> sh[2],
       types |-> [reading_id |-> id[1], timestamp |-> ts[1],
                  license_plate |-> "string", checkpoint_id |-> "string",
                  location |-> loc],
       reading_id |-> id[2], timestamp |-> ts[2], license_plate |-> plate,
       checkpoint_id |-> checkpoint,
       location |-> [keys |-> keys,
                     kinds |-> [latitude |-> latk, longitude |-> lngk],
                     latitude |-> lat, longitude |-> lng]] :
        sh \in Shapes,
        id \in {<<"string", "R1">>, <<"string", "">>, <<"number", "">>},
        ts \in {<<"string", Timestamp(14, 30, 0)>>, <<"string", NotIso>>,
                <<"number", NotIso>>},
        plate \in {"ABC123", ""},
        checkpoint \in {"CHECK_01", ""},
        loc \in {"object", "array"},
        keys \in {{"latitude", "longitude"}, {"latitude"}},
        latk \in CoordinateKinds,
        lngk \in {"number", "text"},
        lat \in {37, 100},
        lng \in {-122, 200} }

InitValidate ==
    /\ InitHandler(0, {HardCodedCampaigns}, Events)
    /\ call \in [fn : {"validate_reading"},
                 reading : Payloads,
                 returned : {FALSE},
                 result : {<<FALSE, <<>>, NoException>>}]

\* result = validate_reading(reading), or the exception that leaves it
call_validate_reading ==
    /\ call.fn = "validate_reading"
    /\ ~call.returned
    /\ call' = [call EXCEPT !.returned = TRUE,
                            !.result = validate_reading(call.reading)]
    /\ UNCHANGED handlerVars

NextValidate == call_validate_reading

SpecValidate == InitValidate /\ [][NextValidate]_vars

(***************************************************************************)
(* The four checks as the specification lists them, read off the payload.  *)
(***************************************************************************)
NonEmptyString(r, f) == r.types[f] = "string" /\ r[f] # ""

FieldsPresent(r) == r.type = "object" /\ AllFields \subseteq r.fields

IdentifiersOk(r) ==
    /\ NonEmptyString(r, "reading_id")
    /\ NonEmptyString(r, "license_plate")
    /\ NonEmptyString(r, "checkpoint_id")

\* a coordinate is numeric when it is a number or a text that spells one; NaN
\* and an integer beyond the float range lie in no interval
LocationOk(r) ==
    /\ r.types.location = "object"
    /\ {"latitude", "longitude"} \subseteq r.location.keys
    /\ r.location.kinds.latitude \in {"number", "numeric_string"}
    /\ r.location.kinds.longitude \in {"number", "numeric_string"}
    /\ -90 <= r.location.latitude /\ r.location.latitude <= 90
    /\ -180 <= r.location.longitude /\ r.location.longitude <= 180

TimestampOk(r) == r.types.timestamp = "string" /\ r.timestamp.iso

\* the first check of the list that the payload violates, 0 if none
FirstViolated(r) ==
    IF ~FieldsPresent(r) THEN 1
    ELSE IF ~IdentifiersOk(r) THEN 2
    ELSE IF ~LocationOk(r) THEN 3
    ELSE IF ~TimestampOk(r) THEN 4
    ELSE 0

\* the check a message belongs to, by the field it names
CheckOf(message) ==
    IF message = <<>> THEN 0
    ELSE IF message[1] = "Missing required field: " THEN 1
    ELSE IF message[1] \in
            {"Invalid reading_id: must be a non-empty string",
             "Invalid license_plate: must be a non-empty string",
             "Invalid checkpoint_id: must be a non-empty string"} THEN 2
    ELSE IF message[1] \in
            {"Invalid location: must be an object",
             "Invalid location: must contain latitude and longitude",
             "Invalid location coordinates: latitude and longitude must be numbers",
             "Invalid latitude: must be between -90 and 90",
             "Invalid longitude: must be between -180 and 180"} THEN 3
    ELSE 4

\* the field a message of the first two checks names is one that fails
NamesFailingField(r, message) ==
    /\ message[1] = "Missing required field: "
          => message[2] \in AllFields \ (IF r.type = "object" THEN r.fields ELSE {})
    /\ message[1] = "Invalid reading_id: must be a non-empty string"
          => ~NonEmptyString(r, "reading_id")
    /\ message[1] = "Invalid license_plate: must be a non-empty string"
          => ~NonEmptyString(r, "license_plate")
    /\ message[1] = "Invalid checkpoint_id: must be a non-empty string"
          => ~NonEmptyString(r, "checkpoint_id")

\* C16: whenever validate_reading returns, it accepts exactly the payloads
\* that violate none of the four checks, and for any other payload it returns
\* the error of the first check violated in the order fields, identifiers,
\* location, timestamp, with a message that names a failing field.
C16_FirstViolatedCheckWins ==
    (/\ call.fn = "validate_reading"
     /\ call.returned
     /\ call.result[3] = NoException) =>
        LET r == call.reading
            first == FirstViolated(r)
        IN /\ call.result[1] <=> first = 0
           /\ CheckOf(call.result[2]) = first
           /\ first # 0 => NamesFailingField(r, call.result[2])

\* C17: validate_reading returns a (valid, message) pair for every payload, an
\* object or not, and no exception leaves it.
C17_NeverRaises ==
    (call.fn = "validate_reading" /\ call.returned) =>
        call.result[3] = NoException

\* C18: a request whose body is missing, is no JSON or is no valid reading is
\* answered 400, and it never connects to the store nor reaches a statement on
\* it: its connection stays None and it is never at the connect step, the
\* reading insert, the campaign loop or the exposure insert, so it changes
\* neither table.
C18_RejectedTouchesNothing ==
    \A p \in Requests :
        Rejected(p) =>
            /\ pc[p] \in {"start", "finally", "done"}
            /\ conn[p] = "None"
            /\ ~Stored(p)
            /\ campaign[p] = 0
            /\ Answered(p) => response[p].statusCode = 400

\* the statements whose failure request p logged
FailedStatements(p) == {l[1] : l \in logs[p]}

\* C19: two requests that met the same kind of store failure, each with the
\* driver's own error text, are answered with the same body: the body of an
\* error response does not vary with the text of the driver.
C19_BodyIndependentOfDriverText ==
    \A p, q \in Requests :
        (/\ Answered(p) /\ Answered(q)
         /\ FailedStatements(p) # {}
         /\ FailedStatements(p) = FailedStatements(q)
         /\ response[p].statusCode = response[q].statusCode)
        => response[p].error = response[q].error

(***************************************************************************)
(* The minute of the day in UTC.                                           *)
(***************************************************************************)
MinutesOf(hhmm) == HourOf(hhmm) * 60 + MinuteOf(hhmm)

\* the minute of the day of the instant, converted to UTC
UtcMinuteOfDay(reading_time) ==
    (reading_time.hour * 60 + reading_time.minute - reading_time.tzinfo) % 1440

\* C20: for a window with start <= end, is_in_time_window is true exactly
\* when the minute of the day of the reading's instant in UTC lies from the
\* start minute to the end minute, whatever UTC offset the timestamp carries.
C20_WindowInUtc ==
    (/\ call.fn = "is_in_time_window"
     /\ call.returned
     /\ WellFormed(call.start_time_str)
     /\ WellFormed(call.end_time_str)
     /\ MinutesOf(call.start_time_str) <= MinutesOf(call.end_time_str))
    => (call.result <=>
            /\ MinutesOf(call.start_time_str) <= UtcMinuteOfDay(call.reading_time)
            /\ UtcMinuteOfDay(call.reading_time) <= MinutesOf(call.end_time_str))

(***************************************************************************)
(* SpecWrap: the handler against a catalog whose first campaign has a      *)
(* window that wraps past midnight (22:00 to 06:00), followed by a         *)
(* campaign with an ordinary window at the same checkpoint; readings at    *)
(* 23:00 and at 03:00.                                                     *)
(***************************************************************************)
WrappingCampaigns ==
    << Campaign("CAMP_N", <<"CHECK_01">>, HHMM(22, 0), HHMM(6, 0), 1, "AD_N"),
       Campaign("CAMP_D", <<"CHECK_01">>, HHMM(10, 0), HHMM(23, 30), 1, "AD_D") >>

WrapEvents ==
    { JsonEvent(ValidReading(id, "ABC123", "CHECK_01", h, 0)) :
        id \in {"R1", "R2"}, h \in {3, 23} }

InitWrap ==
    /\ InitHandler(NumRequests, {WrappingCampaigns}, WrapEvents)
    /\ call = NoCall

SpecWrap == InitWrap /\ [][Next]_vars

\* the window of the campaign starts later in the day than it ends
Wraps(c) == MinutesOf(c.time_window.start) > MinutesOf(c.time_window.end)

\* C21: a campaign whose window wraps past midnight is never returned by the
\* campaign evaluation and never appears in an exposure row, at whatever time
\* of day the reading was taken; and a request that leaves the evaluation
\* without a query failure while a campaign with an ordinary window satisfies
\* checkpoint, window and cap is given a campaign, so the wrapping campaign
\* before it in the catalog does not stop the evaluation.
C21_WrappingWindowExcluded ==
    /\ [](\A p \in Requests :
             campaign[p] # 0 => ~Wraps(CAMPAIGNS[campaign[p]]))
    /\ [](\A k \in 1..Len(exposures) : \A j \in 1..Len(CAMPAIGNS) :
             exposures[k].campaign_id = CAMPAIGNS[j].campaign_id
                 => ~Wraps(CAMPAIGNS[j]))
    /\ [][\A p \in Requests :
            (/\ LeavesLoop(p) /\ ~QueryFails(p)
             /\ \E k \in 1..Len(CAMPAIGNS) :
                    ~Wraps(CAMPAIGNS[k]) /\ Satisfies(k, Body(p)))
            => campaign'[p] # 0 /\ ~Wraps(CAMPAIGNS[campaign'[p]])]_vars

\* a reading taken at 23:00, after the start of the wrapping campaign that
\* covers its checkpoint, was served the campaign that follows it
C21_Witness ==
    \E p \in Requests :
        /\ Returned(p)
        /\ campaign[p] = 2
        /\ ExposuresOf(Body(p).reading_id) # {}
        /\ Wraps(CAMPAIGNS[1])
        /\ Covers(CAMPAIGNS[1], Body(p))
        /\ Body(p).timestamp.hour * 60 + Body(p).timestamp.minute
               >= MinutesOf(CAMPAIGNS[1].time_window.start)

(***************************************************************************)
(* query_metrics/app.py: validate_query_parameters.  The query parameters  *)
(* of API Gateway are texts; params is a record of whether "limit" is      *)
(* present and of its value: null, a text, or an int passed directly.      *)
(***************************************************************************)
MAX_ALLOWED_LIMIT == 100

DefaultLimit == 10

NoParams == [has_limit |-> FALSE, kind |-> "null", text |-> <<>>, value |-> 0]

NullLimit == [has_limit |-> TRUE, kind |-> "null", text |-> <<>>, value |-> 0]

TextLimit(text) == [has_limit |-> TRUE, kind |-> "str", text |-> text, value |-> 0]

IntLimit(n) == [has_limit |-> TRUE, kind |-> "int", text |-> <<>>, value |-> n]

\* a dict as the set of its (key, value) pairs
EmptyDict == {}

\* validate_query_parameters without the clamp to MAX_ALLOWED_LIMIT
validate_query_parameters_unclamped(params) ==
    IF params.has_limit /\ params.kind # "null"
    THEN IF params.kind = "str" /\ ~int_ok(params.text)
         THEN <<EmptyDict, "Parameter 'limit' must be a valid integer">>
         ELSE LET limit == IF params.kind = "str" THEN int(params.text)
                           ELSE params.value
              IN IF limit <= 0
                 THEN <<EmptyDict, "Parameter 'limit' must be a positive integer">>
                 ELSE <<{<<"limit", limit>>}, "">>
    ELSE <<{<<"limit", DefaultLimit>>}, "">>

\* (validated_params, error), the error "" for None
validate_query_parameters(params) ==
    IF params.has_limit /\ params.kind # "null"
    THEN IF params.kind = "str" /\ ~int_ok(params.text)
         THEN <<EmptyDict, "Parameter 'limit' must be a valid integer">>
         ELSE LET limit == IF params.kind = "str" THEN int(params.text)
                           ELSE params.value
              IN IF limit <= 0
                 THEN <<EmptyDict, "Parameter 'limit' must be a positive integer">>
                 ELSE IF limit > MAX_ALLOWED_LIMIT
                 THEN <<{<<"limit", MAX_ALLOWED_LIMIT>>}, "">>
                 ELSE <<{<<"limit", limit>>}, "">>
    ELSE <<{<<"limit", DefaultLimit>>}, "">>

(***************************************************************************)
(* SpecLimit: validate_query_parameters called directly, as test.py does,  *)
(* on every text of up to MaxLimitLen characters and on ints around the    *)
(* limits.                                                                 *)
(***************************************************************************)
MaxLimitLen == 3

LimitAlphabet == {"0", "1", "5", "-", " ", "a"}

RECURSIVE Texts(_)
Texts(n) ==
    IF n = 0 THEN {<<>>}
    ELSE Texts(n - 1)
         \cup {Append(t, c) : t \in {u \in Texts(n - 1) : Len(u) = n - 1},
                              c \in LimitAlphabet}

LimitParams ==
    {NoParams, NullLimit}
    \cup {TextLimit(t) : t \in Texts(MaxLimitLen)}
    \cup {IntLimit(n) : n \in {-1, 0, 1, DefaultLimit, MAX_ALLOWED_LIMIT,
                               MAX_ALLOWED_LIMIT + 1}}

InitLimit ==
    /\ InitHandler(0, {HardCodedCampaigns}, Events)
    /\ call \in [fn : {"validate_query_parameters"},
                 params : LimitParams,
                 returned : {FALSE},
                 result : {<<EmptyDict, "">>}]

call_validate_query_parameters ==
    /\ call.fn = "validate_query_parameters"
    /\ ~call.returned
    /\ call' = [call EXCEPT !.returned = TRUE,
                            !.result = validate_query_parameters(call.params)]
    /\ UNCHANGED handlerVars

NextLimit == call_validate_query_parameters

SpecLimit == InitLimit /\ [][NextLimit]_vars

\* the text is an optional sign and decimal digits (the blanks around it and
\* the underscores between digits that int() accepts set aside)
PlainInteger(text) ==
    LET digits == SelectSeq(text, IsDigit)
        others == SelectSeq(text, LAMBDA c : ~IsDigit(c) /\ c # " " /\ c # "_")
    IN /\ Len(digits) > 0
       /\ Len(others) <= 1
       /\ Len(others) = 1 => others[1] \in {"+", "-"}

\* the limit asked for, when it is an integer
Requested(params) ==
    IF params.kind = "int" THEN params.value
    ELSE LET digits == SelectSeq(params.text, IsDigit)
             magnitude == DecimalValue(digits)
         IN IF \E k \in 1..Len(params.text) : params.text[k] = "-"
            THEN -magnitude ELSE magnitude

Min(a, b) == IF a <= b THEN a ELSE b

\* C25: validate_query_parameters returns the default limit 10 when limit is
\* absent or null; an error with an empty parameter set when limit is no
\* integer or is <= 0; and otherwise no error and the limit min(requested,
\* 100); a returned limit always lies in 1..100.
C25_LimitClamped ==
    (call.fn = "validate_query_parameters" /\ call.returned) =>
        LET params == call.params
            validated == call.result[1]
            error == call.result[2]
        IN /\ \A kv \in validated :
                 kv[1] = "limit" /\ kv[2] \in 1..MAX_ALLOWED_LIMIT
           /\ error # "" <=> validated = EmptyDict
           /\ (~params.has_limit \/ params.kind = "null")
                 => validated = {<<"limit", DefaultLimit>>}
           /\ (params.has_limit /\ params.kind = "int")
                 => IF params.value <= 0 THEN error # ""
                    ELSE validated = {<<"limit", Min(params.value, MAX_ALLOWED_LIMIT)>>}
           /\ (params.has_limit /\ params.kind = "str" /\ int_ok(params.text))
                 => /\ PlainInteger(params.text)
                    /\ IF Requested(params) <= 0 THEN error # ""
                       ELSE validated =
                              {<<"limit", Min(Requested(params), MAX_ALLOWED_LIMIT)>>}
           /\ (params.has_limit /\ params.kind = "str" /\ ~int_ok(params.text))
                 => error # ""

\* a limit above the ceiling was asked for as a text and 100 was returned
C25_Witness ==
    /\ call.fn = "validate_query_parameters"
    /\ call.returned
    /\ call.params.kind = "str"
    /\ Requested(call.params) > MAX_ALLOWED_LIMIT
    /\ call.result = <<{<<"limit", MAX_ALLOWED_LIMIT>>}, "">>

(***************************************************************************)
(* query_metrics/app.py: lambda_handler.  One metrics request runs beside  *)
(* the reading requests; its state is the record call, with pc: "start" -> *)
(* "connect" -> "readings_by_checkpoint" -> "ads_by_campaign" ->           *)
(* "recent_exposures" -> "finally" -> "done".                              *)
(***************************************************************************)
NoMetrics ==
    [readings_by_checkpoint |-> {}, ads_by_campaign |-> {},
     recent_exposures |-> <<>>, limit_applied |-> 0]

metrics_response_error(status, message) ==
    [statusCode |-> status, error |-> message, metrics |-> NoMetrics]

metrics_response(metrics) ==
    [statusCode |-> 200, error |-> <<>>, metrics |-> metrics]

MetricsRequest(params) ==
    [fn |-> "query_metrics", params |-> params, pc |-> "start", conn |-> "None",
     limit |-> 0, queries |-> <<>>, metrics |-> NoMetrics,
     response |-> [statusCode |-> 0, error |-> <<>>, metrics |-> NoMetrics],
     logs |-> {}]

\* the text of the psycopg2.Error that the metrics request meets
MetricsOutcomes == {"ok", DriverErrorList[1]}

\* SELECT checkpoint_id, COUNT(*) FROM license_plate_readings GROUP BY
\* checkpoint_id: the (checkpoint_id, total_readings) pairs
get_readings_by_checkpoint ==
    { <<cp, Cardinality({r \in readings : r.checkpoint_id = cp})>> :
        cp \in {r.checkpoint_id : r \in readings} }

\* SELECT campaign_id, COUNT(*) FROM ad_exposures GROUP BY campaign_id
get_ads_by_campaign ==
    { <<id, Cardinality({k \in 1..Len(exposures) : exposures[k].campaign_id = id})>> :
        id \in {exposures[k].campaign_id : k \in 1..Len(exposures)} }

\* the instant of a timestamp, in minutes of the day in UTC
Instant(ts) == ts.hour * 60 + ts.minute - ts.utcoffset

\* rows of ad_exposures that join a reading
Joined == {k \in 1..Len(exposures) : exposures[k].reading_id \in ReadingIdsStored}

RecentRow(k) ==
    LET r == CHOOSE row \in readings : row.reading_id = exposures[k].reading_id
    IN [exposure_id |-> k, campaign_id |-> exposures[k].campaign_id,
        ad_content |-> exposures[k].ad_content,
        timestamp |-> exposures[k].exposure_timestamp,
        reading_id |-> r.reading_id, license_plate |-> r.license_plate,
        checkpoint_id |-> r.checkpoint_id]

\* ORDER BY ae.exposure_timestamp DESC LIMIT %s: the orders of the most recent
\* rows that the query can return (rows of one instant come in any order)
get_recent_exposures(limit) ==
    LET m == IF limit <= Cardinality(Joined) THEN limit ELSE Cardinality(Joined)
    IN { [i \in 1..m |-> RecentRow(s[i])] :
           s \in { t \in [1..m -> Joined] :
                     /\ \A i, j \in 1..m : i < j =>
                           /\ t[i] # t[j]
                           /\ Instant(exposures[t[i]].exposure_timestamp)
                                >= Instant(exposures[t[j]].exposure_timestamp)
                     /\ \A k \in Joined \ {t[i] : i \in 1..m} : \A i \in 1..m :
                           Instant(exposures[k].exposure_timestamp)
                             <= Instant(exposures[t[i]].exposure_timestamp) } }

MetricsReturn(resp) ==
    call' = [call EXCEPT !.response = resp, !.pc = "finally"]

\* a query of the metrics handler raised psycopg2.Error: log, DatabaseError,
\* and the handler answers 500; no rollback
MetricsQueryFails(log, message, outcome) ==
    call' = [call EXCEPT
               !.conn = "aborted",
               !.logs = @ \cup {<<log, outcome>>},
               !.response = metrics_response_error(500,
                                <<"Database error: ", message, outcome>>),
               !.pc = "finally"]

\* query_params = event.get("queryStringParameters", {}) or {};
\* validate_query_parameters; limit = validated_params.get("limit", 10)
metrics_validate ==
    /\ call.fn = "query_metrics"
    /\ call.pc = "start"
    /\ LET validated == validate_query_parameters(call.params) IN
       IF validated[2] # ""
       THEN MetricsReturn(metrics_response_error(400, <<validated[2]>>))
       ELSE call' = [call EXCEPT
                       !.limit = (CHOOSE kv \in validated[1] : kv[1] = "limit")[2],
                       !.pc = "connect"]
    /\ UNCHANGED handlerVars

\* conn = get_db_connection()
metrics_get_db_connection ==
    /\ call.fn = "query_metrics"
    /\ call.pc = "connect"
    /\ \E outcome \in MetricsOutcomes :
          IF outcome = "ok"
          THEN call' = [call EXCEPT !.conn = "open",
                                    !.pc = "readings_by_checkpoint"]
          ELSE call' = [call EXCEPT
                          !.logs = @ \cup {<<"Database connection error: ", outcome>>},
                          !.response = metrics_response_error(500,
                              <<"Database error: ", "Failed to connect to database: ",
                                outcome>>),
                          !.pc = "finally"]
    /\ UNCHANGED handlerVars

\* readings_by_checkpoint = get_readings_by_checkpoint(conn)
metrics_readings_by_checkpoint ==
    /\ call.fn = "query_metrics"
    /\ call.pc = "readings_by_checkpoint"
    /\ \E outcome \in MetricsOutcomes :
          IF outcome = "ok"
          THEN call' = [call EXCEPT
                          !.conn = "in_transaction",
                          !.queries = Append(@, <<"readings_by_checkpoint">>),
                          !.metrics.readings_by_checkpoint = get_readings_by_checkpoint,
                          !.pc = "ads_by_campaign"]
          ELSE MetricsQueryFails(
                   "Database error when retrieving readings by checkpoint: ",
                   "Failed to get readings by checkpoint: ", outcome)
    /\ UNCHANGED handlerVars

\* ads_by_campaign = get_ads_by_campaign(conn)
metrics_ads_by_campaign ==
    /\ call.fn = "query_metrics"
    /\ call.pc = "ads_by_campaign"
    /\ \E outcome \in MetricsOutcomes :
          IF outcome = "ok"
          THEN call' = [call EXCEPT
                          !.queries = Append(@, <<"ads_by_campaign">>),
                          !.metrics.ads_by_campaign = get_ads_by_campaign,
                          !.pc = "recent_exposures"]
          ELSE MetricsQueryFails(
                   "Database error when retrieving ads by campaign: ",
                   "Failed to get ads by campaign: ", outcome)
    /\ UNCHANGED handlerVars

\* a handler that reports the limit asked for instead of the one it applied
metrics_recent_exposures_reports_requested ==
    /\ call.fn = "query_metrics"
    /\ call.pc = "recent_exposures"
    /\ \E outcome \in MetricsOutcomes :
          IF outcome = "ok"
          THEN \E rows \in get_recent_exposures(call.limit) :
                 LET metrics == [call.metrics EXCEPT
                                   !.recent_exposures = rows,
                                   !.limit_applied =
                                       IF call.params.has_limit
                                          /\ call.params.kind = "str"
                                       THEN int(call.params.text)
                                       ELSE call.limit]
                 IN call' = [call EXCEPT
                               !.queries = Append(@, <<"recent_exposures", call.limit>>),
                               !.metrics = metrics,
                               !.response = metrics_response(metrics),
                               !.pc = "finally"]
          ELSE MetricsQueryFails(
                   "Database error when retrieving recent exposures: ",
                   "Failed to get recent exposures: ", outcome)
    /\ UNCHANGED handlerVars

\* recent_exposures = get_recent_exposures(conn, limit) and the 200 response
\* with metadata.limit_applied = limit
metrics_recent_exposures ==
    /\ call.fn = "query_metrics"
    /\ call.pc = "recent_exposures"
    /\ \E outcome \in MetricsOutcomes :
          IF outcome = "ok"
          THEN \E rows \in get_recent_exposures(call.limit) :
                 LET metrics == [call.metrics EXCEPT
                                   !.recent_exposures = rows,
                                   !.limit_applied = call.limit]
                 IN call' = [call EXCEPT
                               !.queries = Append(@, <<"recent_exposures", call.limit>>),
                               !.metrics = metrics,
                               !.response = metrics_response(metrics),
                               !.pc = "finally"]
          ELSE MetricsQueryFails(
                   "Database error when retrieving recent exposures: ",
                   "Failed to get recent exposures: ", outcome)
    /\ UNCHANGED handlerVars

\* finally: if conn is not None: conn.close()
metrics_finally_close ==
    /\ call.fn = "query_metrics"
    /\ call.pc = "finally"
    /\ call' = [call EXCEPT !.conn = IF @ = "None" THEN @ ELSE "closed",
                            !.pc = "done"]
    /\ UNCHANGED handlerVars

(***************************************************************************)
(* SpecMetrics: reading requests (two of them may share a reading_id) and  *)
(* one metrics request, in any interleaving.                               *)
(***************************************************************************)
MetricsEvents ==
    { JsonEvent(ValidReading("R1", "ABC123", "CHECK_01", 14, 30)),
      JsonEvent(ValidReading("R1", "ABC123", "CHECK_02", 21, 0)),
      JsonEvent(ValidReading("R2", "ABC123", "CHECK_01", 14, 30)) }

MetricsParams ==
    { NoParams,
      TextLimit(<<"1">>), TextLimit(<<"1", "5", "0">>),
      TextLimit(<<"-", "5">>), TextLimit(<<"a">>) }

InitMetrics ==
    /\ InitHandler(NumRequests, {HardCodedCampaigns}, MetricsEvents)
    /\ call \in {MetricsRequest(params) : params \in MetricsParams}

NextMetrics ==
    \/ Next
    \/ metrics_validate
    \/ metrics_get_db_connection
    \/ metrics_readings_by_checkpoint
    \/ metrics_ads_by_campaign
    \/ metrics_recent_exposures
    \/ metrics_finally_close

SpecMetrics == InitMetrics /\ [][NextMetrics]_vars


\* the log texts of the three queries of the metrics handler
MetricsQueryLogs ==
    { "Database error when retrieving readings by checkpoint: ",
      "Database error when retrieving ads by campaign: ",
      "Database error when retrieving recent exposures: " }

MetricsQueryFailed == \E l \in call.logs : l[1] \in MetricsQueryLogs

\* C26: the metrics handler is read-only and fails cleanly: an invalid limit
\* gives 400 with no connection opened and no query run; a failure of any of
\* the three queries gives 500; a 200 response reports in limit_applied
\* exactly the clamped limit that was passed to the recent-exposures query;
\* and no step of the metrics handler changes the readings or exposures
\* tables.
C26_MetricsReadOnlyAndClean ==
    /\ [][call' # call => (readings' = readings /\ exposures' = exposures)]_vars
    /\ [](call.fn = "query_metrics" =>
            /\ (call.pc # "start" /\ validate_query_parameters(call.params)[2] # "")
                  => /\ call.response.statusCode = 400
                     /\ call.conn = "None"
                     /\ call.queries = <<>>
            /\ call.response.statusCode = 400
                  => (call.conn = "None" /\ call.queries = <<>>)
            /\ MetricsQueryFailed => call.response.statusCode = 500
            /\ call.response.statusCode = 200
                  => /\ Len(call.queries) = 3
                     /\ call.queries[3] =
                          <<"recent_exposures", call.response.metrics.limit_applied>>
                     /\ call.response.metrics.limit_applied \in 1..MAX_ALLOWED_LIMIT
                     /\ Len(call.response.metrics.recent_exposures)
                          <= call.response.metrics.limit_applied)

\* a request that asked for 150 rows was answered 200 with limit_applied 100
\* and at least one exposure row, after the store had received rows
C26_Witness ==
    /\ call.fn = "query_metrics"
    /\ call.pc = "done"
    /\ call.params = TextLimit(<<"1", "5", "0">>)
    /\ call.response.statusCode = 200
    /\ call.response.metrics.limit_applied = MAX_ALLOWED_LIMIT
    /\ Len(call.response.metrics.recent_exposures) >= 1
    /\ readings # {}


\* C22: readings and exposures are append-only: no step of either handler,
\* whether it succeeds, fails, meets a duplicate or runs beside other
\* requests, changes a field of a committed reading row or exposure row or
\* removes the row.
C22_AppendOnly ==
    [][ /\ \A r \in readings : r \in readings'
        /\ Len(exposures') >= Len(exposures)
        /\ \A k \in 1..Len(exposures) : exposures'[k] = exposures[k] ]_vars

\* both handlers have run to the end; one request stored its reading and an
\* exposure, and a later one with the same reading_id was turned away as a
\* duplicate
C22_Witness ==
    /\ call.fn = "query_metrics" /\ call.pc = "done"
    /\ \A p \in Requests : pc[p] = "done"
    /\ \E p, q \in Requests :
          /\ response[p].statusCode = 409
          /\ response[q].statusCode = 200
          /\ Body(p).reading_id = Body(q).reading_id
          /\ \E k \in 1..Len(exposures) : exposures[k].reading_id = Body(q).reading_id


\* the steps at which a request issues a write statement
WriteSteps == {"save_reading", "save_exposure"}

\* how far a request has come in lambda_handler
Position(step) ==
    CASE step = "start" -> 0
      [] step = "connect" -> 1
      [] step = "save_reading" -> 2
      [] step = "campaign_loop" -> 3
      [] step = "save_exposure" -> 4
      [] step = "finally" -> 5
      [] step = "done" -> 6

\* request p takes a step
Steps(p) ==
    <<pc[p], conn[p], idx[p], campaign[p], response[p], logs[p]>>' #
    <<pc[p], conn[p], idx[p], campaign[p], response[p], logs[p]>>

\* C23: the handler does not retry: a request never goes back in the handler
\* and leaves a write statement as soon as it attempted it, so it attempts at
\* most one reading insert and at most one exposure insert; a write that did
\* not commit its row sends the request to its response with both tables as
\* they were; and a request that met any store failure issues no further
\* write statement.
C23_NoRetry ==
    /\ [][\A p \in Requests :
            /\ Position(pc'[p]) >= Position(pc[p])
            /\ (pc[p] \in WriteSteps /\ Steps(p)) =>
                  /\ Position(pc'[p]) > Position(pc[p])
                  /\ \/ /\ pc[p] = "save_reading"
                        /\ pc'[p] = "campaign_loop"
                        /\ readings' = readings \cup {ReadingRow(Body(p))}
                        /\ readings' # readings
                     \/ /\ pc[p] = "save_exposure"
                        /\ pc'[p] = "finally"
                        /\ Len(exposures') = Len(exposures) + 1
                     \/ /\ pc'[p] = "finally"
                        /\ response'[p].statusCode \in {409, 500}
                        /\ readings' = readings
                        /\ exposures' = exposures
            /\ (logs[p] # {} /\ Steps(p)) =>
                  /\ pc[p] \notin WriteSteps
                  /\ pc'[p] \in {"finally", "done"}
                  /\ readings' = readings
                  /\ exposures' = exposures
         ]_vars
    /\ [](\A p \in Requests : logs[p] # {} => Answered(p))

\* a request whose reading insert failed and another whose exposure insert
\* failed have both been answered, each after a single attempt
C23_Witness ==
    \E p, q \in Requests :
        /\ pc[p] = "done" /\ pc[q] = "done"
        /\ ReadingInsertFailed(p)
        /\ RowsOf(Body(p).reading_id) = {}
        /\ ExposureInsertFailed(q)
        /\ ExposuresOf(Body(q).reading_id) = {}


\* the 409 response of save_exposure's ForeignKeyViolation clause
ReadingMissing(p) ==
    /\ response[p].statusCode = 409
    /\ response[p].error # <<>>
    /\ response[p].error[1] = "Invalid reading_id: "

\* C24: the reading-missing outcome is unreachable: whenever a request is at
\* its exposure insert the reading_id it inserts is in the readings table, so
\* the foreign key never rejects the insert, and no request is ever answered
\* "Invalid reading_id ... doesn't exist in readings table".
C24_ReadingMissingUnreachable ==
    \A p \in Requests :
        /\ pc[p] = "save_exposure" => ~ForeignKeyViolation(Body(p).reading_id)
        /\ ~ReadingMissing(p)

\* two requests raced with one reading_id: one was turned away as a duplicate,
\* the other had its exposure insert accepted
C24_Witness ==
    \E p, q \in Requests :
        /\ p # q
        /\ Body(p).reading_id = Body(q).reading_id
        /\ Returned(p) /\ Returned(q)
        /\ response[q].statusCode = 409
        /\ response[p].statusCode = 200
        /\ response[p].ad_served # <<>>
        /\ \E k \in 1..Len(exposures) : exposures[k].reading_id = Body(p).reading_id


(***************************************************************************)
(* SpecSeq: cap + 1 requests run strictly one after another, in any order, *)
(* and the store never fails.  The readings carry one of two plates at     *)
(* either checkpoint of CAMP_001, inside its window.                       *)
(***************************************************************************)
SeqEvents ==
    { JsonEvent(ValidReading(ReadingIdList[k], plate, checkpoint, 14, 30)) :
        k \in 1..CapRequests,
        plate \in {PlateList[j] : j \in 1..Len(PlateList)},
        checkpoint \in {"CHECK_01", "CHECK_02"} }

InitSeq ==
    /\ InitHandler(CapRequests, {HardCodedCampaigns}, SeqEvents)
    /\ \A p \in 1..CapRequests : event[p].json.reading_id = ReadingIdList[p]
    /\ call = NoCall

\* no other handler run is in progress while request p runs
Sequential(p) == \A q \in Requests \ {p} : pc[q] \in {"start", "done"}

\* the step meets no failure of the store (every failure is logged)
NoStoreFailure == logs' = logs

NextSeq ==
    \/ \E p \in Requests : Sequential(p) /\ parse_and_validate(p) /\ NoStoreFailure
    \/ \E p \in Requests : Sequential(p) /\ get_db_connection(p) /\ NoStoreFailure
    \/ \E p \in Requests : Sequential(p) /\ save_reading(p) /\ NoStoreFailure
    \/ \E p \in Requests :
          Sequential(p) /\ determine_applicable_campaign(p) /\ NoStoreFailure
    \/ \E p \in Requests : Sequential(p) /\ save_exposure(p) /\ NoStoreFailure
    \/ \E p \in Requests : Sequential(p) /\ finally_close(p) /\ NoStoreFailure

SpecSeq == InitSeq /\ [][NextSeq]_vars

\* C27: with requests processed one after another and no store failure the
\* cap holds exactly: the exposure rows of a (plate, campaign), over all the
\* checkpoints of the campaign, never exceed max_exposures_per_plate; a
\* request is served a campaign only when the plate's count for it was below
\* the cap; and a request that is answered without a campaign had its plate's
\* count at the cap for every campaign matching its checkpoint and time.
C27_SequentialCapExact ==
    /\ [](\A plate \in PlatesSeen : \A k \in 1..Len(CAMPAIGNS) :
            Cardinality(ExposureRowsFor(plate, CAMPAIGNS[k].campaign_id))
                <= CAMPAIGNS[k].max_exposures_per_plate)
    /\ [][\A p \in Requests :
            /\ (pc[p] = "save_exposure" /\ exposures' # exposures) =>
                  Cardinality(ExposureRowsFor(Body(p).license_plate,
                                              CAMPAIGNS[campaign[p]].campaign_id))
                      < CAMPAIGNS[campaign[p]].max_exposures_per_plate
            /\ (/\ pc[p] = "campaign_loop"
                /\ pc'[p] = "finally"
                /\ response'[p] = api_response_result(<<>>)) =>
                  \A k \in 1..Len(CAMPAIGNS) :
                      MatchesCheckpointAndTime(Body(p), CAMPAIGNS[k]) =>
                          Cardinality(ExposureRowsFor(Body(p).license_plate,
                                                      CAMPAIGNS[k].campaign_id))
                              >= CAMPAIGNS[k].max_exposures_per_plate
         ]_vars

\* four readings of one plate, seen at both checkpoints of CAMP_001, have been
\* answered: three were served the campaign and the last one was not
C27_Witness ==
    /\ \A p \in Requests : pc[p] = "done" /\ Body(p).license_plate = "ABC123"
    /\ {Body(p).checkpoint_id : p \in Requests} = {"CHECK_01", "CHECK_02"}
    /\ Cardinality(ExposureRowsFor("ABC123", "CAMP_001"))
          = HardCodedCampaigns[1].max_exposures_per_plate
    /\ Cardinality({p \in Requests : response[p] = api_response_result(<<>>)}) = 1


\* the exposure rows that request p committed: rows of its reading_id, which
\* only the request that stored the reading can insert
CommittedBy(p) ==
    IF Stored(p) THEN ExposuresOf(Body(p).reading_id) ELSE {}

\* C28: the success response agrees with the store: an answered request has
\* the 200 response with ad_served = {campaign_id, ad_content} if and only if
\* it committed exactly one exposure row for its reading_id, with that
\* campaign_id and ad_content; and it has the 200 response with ad_served =
\* null only if it committed no exposure row.
C28_ResponseAgreesWithStore ==
    \A p \in Requests :
        Answered(p) =>
            /\ (response[p].statusCode = 200 /\ response[p].ad_served # <<>>)
                 <=> /\ Cardinality(CommittedBy(p)) = 1
                     /\ \A k \in CommittedBy(p) :
                           response[p].ad_served =
                               <<exposures[k].campaign_id, exposures[k].ad_content>>
            /\ (response[p].statusCode = 200 /\ response[p].ad_served = <<>>)
                 => CommittedBy(p) = {}

\* one request was answered with the ad of the exposure row it committed,
\* another with ad_served = null and no row
C28_Witness ==
    \E p, q \in Requests :
        /\ Returned(p) /\ Returned(q)
        /\ response[p].statusCode = 200 /\ response[p].ad_served # <<>>
        /\ Cardinality(CommittedBy(p)) = 1
        /\ response[q].statusCode = 200 /\ response[q].ad_served = <<>>
        /\ CommittedBy(q) = {}


AbortPoints == {"campaign_loop", "save_exposure", "finally"}

\* the run of request p is killed after its reading insert committed
abort(p) ==
    /\ pc[p] \in AbortPoints
    /\ idx[p] > 0
    /\ IF pc[p] = "save_exposure"
       THEN \E committed \in BOOLEAN :
               LET body == event[p].json
                   c == CAMPAIGNS[campaign[p]]
               IN exposures' =
                     IF committed /\ ~ForeignKeyViolation(body.reading_id)
                     THEN Append(exposures,
                                 ExposureRow(body.reading_id, c.campaign_id,
                                             c.ad_content, body.timestamp))
                     ELSE exposures
       ELSE UNCHANGED exposures
    /\ conn' = [conn EXCEPT ![p] = "closed"]
    /\ pc' = [pc EXCEPT ![p] = "aborted"]
    /\ UNCHANGED <<CAMPAIGNS, readings, event, idx, campaign, response, logs, call>>

InitAbort ==
    /\ InitHandler(NumRequests, Catalogs, MetricsEvents)
    /\ call = NoCall

NextAbort ==
    \/ \E p \in Requests : parse_and_validate(p)
    \/ \E p \in Requests : get_db_connection(p)
    \/ \E p \in Requests : save_reading(p)
    \/ \E p \in Requests : determine_applicable_campaign(p)
    \/ \E p \in Requests : save_exposure(p)
    \/ \E p \in Requests : finally_close(p)
    \/ \E p \in Requests : abort(p)

SpecAbort == InitAbort /\ [][NextAbort]_vars

Aborted(p) == pc[p] = "aborted"

\* C30: when requests are aborted after their reading insert committed the
\* store stays consistent: an aborted request's reading row is stored, the
\* exposure of its reading is either absent or one whole row (the reading's
\* id and timestamp with the campaign_id and ad_content of one catalog
\* campaign that covers its checkpoint), every exposure row references a
\* stored reading, and no reading has two exposure rows.
C30_AbortLeavesStoreConsistent ==
    /\ \A p \in Requests :
          Aborted(p) =>
              /\ ReadingRow(Body(p)) \in readings
              /\ \A k \in ExposuresOf(Body(p).reading_id) :
                    \E j \in 1..Len(CAMPAIGNS) :
                        /\ Covers(CAMPAIGNS[j], Body(p))
                        /\ exposures[k] =
                              ExposureRow(Body(p).reading_id,
                                          CAMPAIGNS[j].campaign_id,
                                          CAMPAIGNS[j].ad_content,
                                          Body(p).timestamp)
    /\ \A k \in 1..Len(exposures) : exposures[k].reading_id \in ReadingIdsStored
    /\ \A id \in ReadingIdsStored : Cardinality(ExposuresOf(id)) <= 1

\* one request was aborted with its reading stored and no exposure, another
\* was aborted inside save_exposure with its exposure committed
C30_Witness ==
    \E p, q \in Requests :
        /\ Aborted(p) /\ Aborted(q)
        /\ RowsOf(Body(p).reading_id) # {}
        /\ ExposuresOf(Body(p).reading_id) = {}
        /\ Cardinality(ExposuresOf(Body(q).reading_id)) = 1
        /\ response[q] = NoResponse


(***************************************************************************)
(* SpecLive: requests on every path, with the handler runs going on as     *)
(* long as one of them has a statement to execute: the runtime keeps       *)
(* running an invocation and every call to the store returns, with a       *)
(* result or with an error.                                                *)
(***************************************************************************)
\* a body that makes validate_reading raise, one that it rejects, and two
\* readings with one reading_id, of which the first matches a campaign
LiveEvents ==
    { JsonEvent(NumberPayload),
      JsonEvent(Without(ValidReading("R1", "ABC123", "CHECK_01", 14, 30), "timestamp")),
      JsonEvent(ValidReading("R1", "ABC123", "CHECK_01", 14, 30)),
      JsonEvent(ValidReading("R1", "ABC123", "CHECK_02", 21, 0)) }

InitLive ==
    /\ InitHandler(NumRequests, {HardCodedCampaigns}, LiveEvents)
    /\ call = NoCall

SpecLive == InitLive /\ [][Next]_vars /\ WF_vars(Next)

\* the unexpected exception of request p was caught by "except Exception"
UnhandledError(p) == \E l \in logs[p] : l[1] = "Unhandled error: "

\* C31: every run of the reading handler terminates with a response (a status
\* of 200, 400, 409 or 500), and by the time the response is returned a run
\* that opened a store connection has closed it: a returned request holds no
\* open connection, and a returned request whose body was valid and whose
\* connection attempt did not fail has its connection closed.
C31_TerminatesAndCloses ==
    /\ <>[](\A p \in Requests :
               pc[p] = "done" /\ response[p].statusCode \in {200, 400, 409, 500})
    /\ [](\A p \in Requests :
            /\ Returned(p) => conn[p] \in {"None", "closed"}
            /\ (Returned(p) /\ IsValid(p) /\ ~ConnectFailed(p)) => conn[p] = "closed"
            /\ conn[p] = "closed" => Returned(p))

\* one run ended with the 500 of an unexpected exception before it opened a
\* connection, another with the 500 of a failed exposure insert and its
\* connection closed
C31_Witness ==
    \E p, q \in Requests :
        /\ Returned(p) /\ UnhandledError(p)
        /\ response[p].statusCode = 500 /\ conn[p] = "None"
        /\ Returned(q) /\ ExposureInsertFailed(q)
        /\ response[q].statusCode = 500 /\ conn[q] = "closed"

====
